---- MODULE Spec2Model ----
(***************************************************************************)
(* Model of the access-bridge flow manager of the OpFlex agent             *)
(* (agent-ovs/ovs/AccessFlowManager.cpp, FlowUtils.cpp).                   *)
(*                                                                         *)
(* The state is the flow cells handed to the switch manager, indexed by    *)
(* (ownerKey, tableId), the id and conntrack-zone allocators, the task     *)
(* queue, and the external stores the handlers read (endpoints, ports,     *)
(* policy, drop-log configuration).  Every handler is one atomic action:   *)
(* the handlers dispatched through the task queue all run on the agent IO  *)
(* service.  packetDropLogConfigUpdated runs on the caller's thread and is *)
(* modelled in two steps, the resolve of the object and the write.         *)
(***************************************************************************)
EXTENDS Integers, Sequences, FiniteSets, TLC

VARIABLES
    epStore,          \* EndpointManager: uuid -> endpoint or NoEp
    portMap,          \* PortMapper: interface name -> port number
    policy,           \* PolicyManager: security group uri -> rule list
    lbStore,          \* LearningBridgeManager: uuid -> learning bridge interface or NoLb
    flows,            \* SwitchManager: <<ownerKey, tableId>> -> set of flow entries
    idGen,            \* IdGenerator: namespace -> (string -> id)
    ctZones,          \* CtZoneManager: uuid -> zone
    conntrackEnabled, \* AccessFlowManager::conntrackEnabled
    stopping,         \* AccessFlowManager::stopping
    queued,           \* TaskQueue: tasks dispatched and not yet run (one per key)
    portPending,      \* IO service: pending handlePortStatusUpdate callbacks per port name
    dropLogCfg,       \* MODB: the DropLogConfig object: "absent", "disabled", "unfiltered", "filtered"
    dlPending,        \* packetDropLogConfigUpdated notifications not yet picked up
    dlThread,         \* per caller thread: position in packetDropLogConfigUpdated
    dropLog,          \* dropLogIface, dropLogDst, dropLogRemotePort
    lastDscp,         \* QosManager: the dscp value of the last dscpQosUpdated per interface
    budget,           \* remaining number of changes of the external stores
    lastOp,           \* the handler that ran last (history)
    ovsdb             \* OvsdbConnection: connected, syncComplete, syncMsgsRemaining, monitors

vars == <<epStore, portMap, policy, lbStore, flows, idGen, ctZones, conntrackEnabled,
          stopping, queued, portPending, dropLogCfg, dlPending, dlThread,
          dropLog, lastDscp, budget, lastOp, ovsdb>>

---------------------------------------------------------------------------
(* Bounds of the model *)

MaxChurn == 2          \* number of changes of the external stores in one run
MaxPortPending == 1    \* pending port-status callbacks per port name
MaxDlPending == 2      \* drop-log notifications waiting for a thread

Uuids == {"ep1", "ep2"}
Ifaces == {"veth1", "veth1-up"}
PortNos == {5, 6}
Threads == {"t1", "t2"}
QosIfaces == {"veth1", "eth0"}
LbUuids == {"lb1"}
Dscps == {0, 10, 20}

---------------------------------------------------------------------------
(* Program constants *)

\* AccessFlowManager.h table ids, in pipeline order
DROP_LOG_TABLE_ID == 0
SERVICE_BYPASS_TABLE_ID == 1
GROUP_MAP_TABLE_ID == 2
SYS_SEC_GRP_IN_TABLE_ID == 3
SEC_GROUP_IN_TABLE_ID == 4
SYS_SEC_GRP_OUT_TABLE_ID == 5
SEC_GROUP_OUT_TABLE_ID == 6
TAP_TABLE_ID == 7
OUT_TABLE_ID == 8
EXP_DROP_TABLE_ID == 9
Tables == DROP_LOG_TABLE_ID .. EXP_DROP_TABLE_ID

OFPP_NONE == 65535
MAX_POLICY_RULE_PRIORITY == 8192

\* flow::meta
META_DROP_LOG == 2048
META_OUT_MASK == 255
ACCESS_META_MASK == 768
INGRESS_DIR == 256
EGRESS_DIR == 512
POP_VLAN == 1
PUSH_VLAN == 2
UNTAGGED_AND_PUSH_VLAN == 3
ACCESS_MASK == 1023

\* eth::type, ip::type
ETH_IP == 2048
ETH_ARP == 2054
ETH_IPV6 == 34525
PROTO_TCP == 6
PROTO_UDP == 17

\* flow::cookie
COOKIE_TABLE_DROP_FLOW == 1000011
COOKIE_DNS_RESPONSE_V4 == 1000012
COOKIE_DNS_RESPONSE_V6 == 1000013
TCP_DNS == 53
UDP_DNS == 53

NoEp == [exists |-> FALSE]
NoIface == "NoIface"
NoLb == [exists |-> FALSE]
NoZone == 65535       \* static_cast<uint16_t>(-1)

---------------------------------------------------------------------------
(* FlowBuilder: a flow entry is a record; its match maps field names to    *)
(* values, its action is the list of actions in the order they were added. *)

NoMatch == [f \in {} |-> 0]

FlowEntry(prio, m, acts, ck) ==
    [priority |-> prio, match |-> m, action |-> acts, cookie |-> ck]

ActReg(r, v) == <<"reg", r, v>>
ActMeta(v, mask) == <<"metadata", v, mask>>
ActGo(t) == <<"go", t>>
ActOutput(p) == <<"output", p>>

MTci(v, mask) == "tci" :> <<v, mask>>
MInPort(p) == "in_port" :> p

---------------------------------------------------------------------------
(* Addresses.  boost::asio::ip::address::from_string either fails or       *)
(* yields a v4 or a v6 address.                                            *)

V4Addrs == {"0.0.0.0", "10.0.0.1", "10.0.0.2", "10.9.9.9", "5.5.5.5"}
V6Addrs == {"fd00::1"}
NoAddr == ""

IsValidAddr(a) == a \in V4Addrs \cup V6Addrs
IsV4(a) == a \in V4Addrs
IsUnspecified(a) == a = "0.0.0.0"
HostPrefix(a) == IF IsV4(a) THEN 32 ELSE 128

---------------------------------------------------------------------------
(* Security group uris and the endpoints of the model *)

SgWeb == "sg-web"
SgSys == "sg_SystemSecurityGroup"
SecGroups == {SgWeb, SgSys}

EpBase ==
    [accessIface |-> "veth1", uplinkIface |-> "veth1-up", vlan |-> 0,
     allowUntagged |-> FALSE, ips |-> {}, serviceIps |-> {},
     dhcp4 |-> FALSE, dhcp6 |-> FALSE, secGroups |-> {},
     ifaceName |-> NoIface, ipMappings |-> {}]

EpPlain == [EpBase EXCEPT !.ips = {"10.0.0.1"}, !.serviceIps = {"10.9.9.9"}]
EpWeb == [EpBase EXCEPT !.vlan = 100, !.allowUntagged = TRUE, !.dhcp4 = TRUE,
                        !.secGroups = {SgWeb},
                        !.ipMappings = {[mappedIp |-> "10.0.0.2",
                                         floatingIp |-> "5.5.5.5",
                                         egURI |-> TRUE]}]
EpSys == [EpBase EXCEPT !.secGroups = {SgSys}]
EpNoUplink == [EpBase EXCEPT !.uplinkIface = NoIface]

\* an endpoint whose interface is the port of a learning bridge
EpTrunk == [EpBase EXCEPT !.ifaceName = "veth1"]

EpConfigs == {EpPlain, EpWeb, EpSys, EpNoUplink, EpTrunk}

\* a learning bridge interface that trunks vlans 10 and 11 on veth1
LbTrunk == [ifaceName |-> "veth1", trunkVlans |-> { <<10, 11>> }]

\* the same interface trunking one VLAN only
LbNarrow == [ifaceName |-> "veth1", trunkVlans |-> { <<10, 10>> }]

\* an endpoint with an access VLAN that does not allow untagged frames
EpTagged == [EpPlain EXCEPT !.vlan = 100]

\* the endpoint of sg-web on the port of the learning bridge
EpWebTrunk == [EpWeb EXCEPT !.ifaceName = "veth1"]

---------------------------------------------------------------------------
(* Endpoint flows: AccessFlowManager.cpp, the static helpers and           *)
(* handleEndpointUpdate.                                                   *)

HasVlan(ep) == ep.vlan # 0

getPushVlanMeta(ep) ==
    IF ep.allowUntagged THEN UNTAGGED_AND_PUSH_VLAN ELSE PUSH_VLAN

match_dhcp_req(v4) ==
    IF v4 THEN ("proto" :> PROTO_UDP) @@ ("eth_type" :> ETH_IP)
               @@ ("tp_src" :> <<68, 65535>>) @@ ("tp_dst" :> <<67, 65535>>)
          ELSE ("proto" :> PROTO_UDP) @@ ("eth_type" :> ETH_IPV6)
               @@ ("tp_src" :> <<546, 65535>>) @@ ("tp_dst" :> <<547, 65535>>)

flowBypassDhcpRequest(v4, skip_pop_vlan, inport, outport, ep) ==
    LET tagged == HasVlan(ep) /\ ~skip_pop_vlan
        prio == IF tagged THEN 201 ELSE 200
        m == MInPort(inport) @@ match_dhcp_req(v4)
             @@ (IF tagged THEN "vlan" :> ep.vlan ELSE NoMatch)
             @@ (IF skip_pop_vlan THEN MTci(0, 8191) ELSE NoMatch)
        a == << ActReg("REG7", outport) >>
             \o (IF tagged
                 THEN << ActMeta(POP_VLAN + EGRESS_DIR, ACCESS_MASK) >>
                 ELSE <<>>)
             \o (IF ~HasVlan(ep) /\ ~skip_pop_vlan
                 THEN << ActMeta(EGRESS_DIR, ACCESS_META_MASK) >>
                 ELSE <<>>)
             \o (IF skip_pop_vlan
                 THEN << ActMeta(EGRESS_DIR, ACCESS_META_MASK) >>
                 ELSE <<>>)
             \o << ActGo(TAP_TABLE_ID) >>
    IN FlowEntry(prio, m, a, 0)

flowBypassFloatingIP(inport, outport, in, skip_pop_vlan, floatingIp, ep) ==
    LET tagged == HasVlan(ep) /\ ~skip_pop_vlan
        prio == IF tagged THEN 201 ELSE 200
        m == MInPort(inport)
             @@ ("eth_type" :> (IF IsV4(floatingIp) THEN ETH_IP ELSE ETH_IPV6))
             @@ (IF in THEN "ip_src" :> <<floatingIp, HostPrefix(floatingIp)>>
                       ELSE "ip_dst" :> <<floatingIp, HostPrefix(floatingIp)>>)
             @@ (IF tagged /\ ~in THEN "vlan" :> ep.vlan ELSE NoMatch)
             @@ (IF skip_pop_vlan /\ ~in THEN MTci(0, 8191) ELSE NoMatch)
        dirMeta == IF in THEN INGRESS_DIR ELSE EGRESS_DIR
        a == << ActReg("REG7", outport) >>
             \o (IF tagged
                 THEN IF in
                      THEN << ActReg("REG5", ep.vlan),
                              ActMeta(getPushVlanMeta(ep) + INGRESS_DIR,
                                      ACCESS_MASK) >>
                      ELSE << ActMeta(POP_VLAN + EGRESS_DIR, ACCESS_MASK) >>
                 ELSE <<>>)
             \o (IF ~HasVlan(ep) /\ ~skip_pop_vlan
                 THEN << ActMeta(dirMeta, ACCESS_META_MASK) >>
                 ELSE <<>>)
             \o (IF skip_pop_vlan
                 THEN << ActMeta(dirMeta, ACCESS_META_MASK) >>
                 ELSE <<>>)
             \o << ActGo(TAP_TABLE_ID) >>
    IN FlowEntry(prio, m, a, 0)

flowBypassServiceIP(accessPort, uplinkPort, ep) ==
    UNION { UNION { LET ingress ==
                          FlowEntry(10,
                              ("eth_type" :> ETH_IP) @@ MInPort(uplinkPort)
                              @@ ("ip_src" :> <<svcip, HostPrefix(svcip)>>)
                              @@ ("ip_dst" :> <<epip, HostPrefix(epip)>>),
                              << ActReg("REG7", accessPort) >>
                              \o (IF HasVlan(ep)
                                  THEN << ActReg("REG5", ep.vlan),
                                          ActMeta(PUSH_VLAN + INGRESS_DIR,
                                                  ACCESS_MASK) >>
                                  ELSE << ActMeta(INGRESS_DIR,
                                                  ACCESS_META_MASK) >>)
                              \o << ActGo(TAP_TABLE_ID) >>, 0)
                        egress ==
                          FlowEntry(10,
                              ("eth_type" :> ETH_IP) @@ MInPort(accessPort)
                              @@ ("ip_src" :> <<epip, HostPrefix(epip)>>)
                              @@ ("ip_dst" :> <<svcip, HostPrefix(svcip)>>)
                              @@ (IF HasVlan(ep) THEN "vlan" :> ep.vlan
                                                 ELSE MTci(0, 8191)),
                              << ActReg("REG7", uplinkPort) >>
                              \o (IF HasVlan(ep)
                                  THEN << ActMeta(POP_VLAN + EGRESS_DIR,
                                                  ACCESS_MASK) >>
                                  ELSE << ActMeta(EGRESS_DIR,
                                                  ACCESS_META_MASK) >>)
                              \o << ActGo(TAP_TABLE_ID) >>, 0)
                    IN {ingress, egress}
                    : svcip \in {s \in ep.serviceIps : IsValidAddr(s)} }
            : epip \in {i \in ep.ips : IsValidAddr(i)} }

\* variant: the zone register is loaded whatever the allocator returned
ActZone_Always(zoneId) ==
    << ActReg("REG6", zoneId) >>

\* lines 564-566, 606-608, 645-647: reg6 only for an allocated zone
ActZone(zoneId) ==
    IF zoneId # NoZone THEN << ActReg("REG6", zoneId) >> ELSE <<>>

\* variant: the tagged case writes with the mask of the direction field
EpAccessClassifier_DirMask(ep, accessPort, uplinkPort, secGrpSetId, zoneId) ==
    FlowEntry(100,
        MInPort(accessPort)
        @@ (IF HasVlan(ep) THEN "vlan" :> ep.vlan ELSE MTci(0, 8191)),
        ActZone(zoneId)
        \o << ActReg("REG0", secGrpSetId), ActReg("REG7", uplinkPort) >>
        \o (IF HasVlan(ep)
            THEN << ActMeta(POP_VLAN + EGRESS_DIR, ACCESS_META_MASK) >>
            ELSE << ActMeta(EGRESS_DIR, ACCESS_META_MASK) >>)
        \o << ActGo(SYS_SEC_GRP_OUT_TABLE_ID) >>, 0)

\* the classifier of the access port: lines 561-588
EpAccessClassifier(ep, accessPort, uplinkPort, secGrpSetId, zoneId) ==
    FlowEntry(100,
        MInPort(accessPort)
        @@ (IF HasVlan(ep) THEN "vlan" :> ep.vlan ELSE MTci(0, 8191)),
        ActZone(zoneId)
        \o << ActReg("REG0", secGrpSetId), ActReg("REG7", uplinkPort) >>
        \o (IF HasVlan(ep)
            THEN << ActMeta(POP_VLAN + EGRESS_DIR, ACCESS_MASK) >>
            ELSE << ActMeta(EGRESS_DIR, ACCESS_META_MASK) >>)
        \o << ActGo(SYS_SEC_GRP_OUT_TABLE_ID) >>, 0)

\* the untagged variant: lines 601-617
EpUntaggedClassifier(ep, accessPort, uplinkPort, secGrpSetId, zoneId) ==
    FlowEntry(99,
        MInPort(accessPort) @@ MTci(0, 8191),
        ActZone(zoneId)
        \o << ActReg("REG0", secGrpSetId), ActReg("REG7", uplinkPort),
              ActMeta(EGRESS_DIR, ACCESS_META_MASK),
              ActGo(SYS_SEC_GRP_OUT_TABLE_ID) >>, 0)

\* the classifier of the uplink port: lines 643-665
EpUplinkClassifier(ep, accessPort, uplinkPort, secGrpSetId, zoneId) ==
    FlowEntry(100,
        MInPort(uplinkPort),
        ActZone(zoneId)
        \o << ActReg("REG0", secGrpSetId), ActReg("REG7", accessPort) >>
        \o (IF HasVlan(ep)
            THEN << ActReg("REG5", ep.vlan),
                    ActMeta(getPushVlanMeta(ep) + INGRESS_DIR, ACCESS_MASK) >>
            ELSE << ActMeta(INGRESS_DIR, ACCESS_META_MASK) >>)
        \o << ActGo(SYS_SEC_GRP_IN_TABLE_ID) >>, 0)

\* learning-bridge trunk passthrough: lines 669-682; a mask is <<value, mask>>
EpTrunkFlows(accessPort, uplinkPort, trunkVlans) ==
    UNION { LET tci == 4096 + m[1]
                mask == 4096 + (m[2] % 4096)
            IN { FlowEntry(500, MInPort(accessPort) @@ MTci(tci, mask),
                           << ActOutput(uplinkPort) >>, 0),
                 FlowEntry(500, MInPort(uplinkPort) @@ MTci(tci, mask),
                           << ActOutput(accessPort) >>, 0) }
            : m \in trunkVlans }

\* floating-ip bypass: lines 686-718
EpFloatingFlows(ep, accessPort, uplinkPort) ==
    UNION { IF ipm.mappedIp = NoAddr \/ ~ipm.egURI
               \/ ~IsValidAddr(ipm.mappedIp)
            THEN {}
            ELSE IF ipm.floatingIp # NoAddr
                    /\ (\/ ~IsValidAddr(ipm.floatingIp)
                        \/ IsV4(ipm.floatingIp) # IsV4(ipm.mappedIp)
                        \/ IsUnspecified(ipm.floatingIp))
            THEN {}
            ELSE LET fip == IF ipm.floatingIp # NoAddr THEN ipm.floatingIp
                                                       ELSE "0.0.0.0"
                 IN { flowBypassFloatingIP(accessPort, uplinkPort, FALSE,
                                           FALSE, fip, ep),
                      flowBypassFloatingIP(uplinkPort, accessPort, TRUE,
                                           FALSE, fip, ep) }
                    \cup (IF ep.allowUntagged /\ HasVlan(ep)
                          THEN { flowBypassFloatingIP(accessPort, uplinkPort,
                                                      FALSE, TRUE, fip, ep),
                                 flowBypassFloatingIP(uplinkPort, accessPort,
                                                      TRUE, TRUE, fip, ep) }
                          ELSE {})
            : ipm \in ep.ipMappings }

\* the DHCP bypass flows: lines 625-641
EpDhcpFlows(ep, accessPort, uplinkPort) ==
    (IF ep.dhcp4
     THEN { flowBypassDhcpRequest(TRUE, FALSE, accessPort, uplinkPort, ep) }
          \cup (IF ep.allowUntagged /\ HasVlan(ep)
                THEN { flowBypassDhcpRequest(TRUE, TRUE, accessPort,
                                             uplinkPort, ep) }
                ELSE {})
     ELSE {})
    \cup
    (IF ep.dhcp6
     THEN { flowBypassDhcpRequest(FALSE, FALSE, accessPort, uplinkPort, ep) }
          \cup (IF ep.allowUntagged /\ HasVlan(ep)
                THEN { flowBypassDhcpRequest(FALSE, TRUE, accessPort,
                                             uplinkPort, ep) }
                ELSE {})
     ELSE {})

\* the list el written to GROUP_MAP: lines 557-720
EpGroupMapFlows(ep, accessPort, uplinkPort, secGrpSetId, zoneId, trunkVlans) ==
    IF accessPort # OFPP_NONE /\ uplinkPort # OFPP_NONE
    THEN { EpAccessClassifier(ep, accessPort, uplinkPort, secGrpSetId, zoneId) }
         \cup (IF ep.allowUntagged /\ HasVlan(ep)
               THEN { EpUntaggedClassifier(ep, accessPort, uplinkPort,
                                           secGrpSetId, zoneId) }
               ELSE {})
         \cup EpDhcpFlows(ep, accessPort, uplinkPort)
         \cup { EpUplinkClassifier(ep, accessPort, uplinkPort, secGrpSetId,
                                   zoneId) }
         \cup EpTrunkFlows(accessPort, uplinkPort, trunkVlans)
         \cup EpFloatingFlows(ep, accessPort, uplinkPort)
    ELSE {}

\* variant: only the access port is tested
EpServiceBypassFlows_AccessOnly(ep, accessPort, uplinkPort) ==
    IF accessPort # OFPP_NONE
    THEN flowBypassServiceIP(accessPort, uplinkPort, ep)
    ELSE {}

\* the list skipServiceFlows written to SERVICE_BYPASS: lines 558, 595, 721
EpServiceBypassFlows(ep, accessPort, uplinkPort) ==
    IF accessPort # OFPP_NONE /\ uplinkPort # OFPP_NONE
    THEN flowBypassServiceIP(accessPort, uplinkPort, ep)
    ELSE {}

---------------------------------------------------------------------------
(* Strings: the canonical id of a security-group set and the test for a    *)
(* system security group.                                                  *)

\* a group whose uri holds a comma; URI(const std::string&) takes any string
SgComma == "sg,x"

\* std::set<URI> iterates in the order of the uri strings
SgSorted == << "sg,x", "sg-web", "sg_SystemSecurityGroup" >>

SortedUris(secGrps) == SelectSeq(SgSorted, LAMBDA u : u \in secGrps)

RECURSIVE JoinComma(_)
JoinComma(us) ==
    IF us = <<>> THEN ""
    ELSE IF Len(us) = 1 THEN us[1]
    ELSE us[1] \o "," \o JoinComma(Tail(us))

\* getSecGrpSetId, lines 92-101, tabulated over the sets of the model
SecGrpSetIdTable == [S \in SUBSET { SgSorted[i] : i \in 1 .. Len(SgSorted) } |->
                        JoinComma(SortedUris(S))]

getSecGrpSetId(secGrps) == SecGrpSetIdTable[secGrps]

\* std::string::find(needle) != npos
Contains(str, needle) ==
    \E i \in 1 .. (Len(str) - Len(needle) + 1) :
        SubSeq(str, i, i + Len(needle) - 1) = needle

\* boost::split(parts, str, is_any_of(sep)): the tokens between separators
RECURSIVE SplitFrom(_, _, _, _)
SplitFrom(str, sep, start, i) ==
    IF i > Len(str) THEN << SubSeq(str, start, Len(str)) >>
    ELSE IF SubSeq(str, i, i) = sep
         THEN << SubSeq(str, start, i - 1) >> \o SplitFrom(str, sep, i + 1, i + 1)
         ELSE SplitFrom(str, sep, start, i + 1)

Split(str, sep) == SplitFrom(str, sep, 1, 1)

VMM_DOMAIN_DN_PARTS == 4

\* PolicyManager::getOpflexDomain of the modelled agent
OpflexDomain == "comp/prov-K/ctrlr-k-sg/sw-S"

SystemSecurityGroupTest(uri) ==
    LET parts == Split(OpflexDomain, "/")
        ctrlr_parts == IF Len(parts) = VMM_DOMAIN_DN_PARTS
                       THEN Split(parts[3], "-") ELSE <<>>
        systemSgName == IF Len(ctrlr_parts) = 3
                        THEN ctrlr_parts[3] \o "_SystemSecurityGroup"
                        ELSE "_SystemSecurityGroup"
    IN Contains(uri, systemSgName)

\* checkIfSystemSecurityGroup, lines 801-823, tabulated over the uris of the model
SystemSecurityGroupTable ==
    [u \in { SgSorted[i] : i \in 1 .. Len(SgSorted) } |-> SystemSecurityGroupTest(u)]

checkIfSystemSecurityGroup(uri) == SystemSecurityGroupTable[uri]

---------------------------------------------------------------------------
(* IdGenerator and CtZoneManager.  A namespace maps strings to ids; an id  *)
(* is allocated on the first getId of a string and is stable afterwards.   *)

ID_NMSPC_SECGROUP_SET == "secGroupSet"
ID_NMSPC_RULE == "l24classifierRule"

NextFree(f) ==
    CHOOSE n \in 1 .. (Cardinality(DOMAIN f) + 1) :
        /\ \A s \in DOMAIN f : f[s] # n
        /\ \A k \in 1 .. (n - 1) : \E s \in DOMAIN f : f[s] = k

\* the allocator after getId(ns, str)
IdAlloc(ig, ns, str) ==
    IF str \in DOMAIN ig[ns] THEN ig
    ELSE [ig EXCEPT ![ns] = (str :> NextFree(@)) @@ @]

RECURSIVE IdAllocAll(_, _, _)
IdAllocAll(ig, ns, strs) ==
    IF strs = <<>> THEN ig
    ELSE IdAllocAll(IdAlloc(ig, ns, Head(strs)), ns, Tail(strs))

\* the value getId(ns, str) returns
IdOf(ig, ns, str) == IdAlloc(ig, ns, str)[ns][str]

\* CtZoneManager::getId: the zone of the uuid, a fresh zone, or 0xffff when
\* no zone can be allocated.  The result is <<zoneId, allocator afterwards>>.
CtGetId(cz, uuid) ==
    IF uuid \in DOMAIN cz THEN { <<cz[uuid], cz>> }
    ELSE { <<NoZone, cz>>, <<NextFree(cz), (uuid :> NextFree(cz)) @@ cz>> }

\* CtZoneManager::erase
CtErase(cz, uuid) == [u \in (DOMAIN cz) \ {uuid} |-> cz[u]]

---------------------------------------------------------------------------
(* Policy rules.  A rule carries its classifier; unset optional fields of  *)
(* the classifier are -1, unspecified enum values are 0.                   *)

Unset == -1

ClsBase ==
    [uri |-> "cls", etherT |-> 0, prot |-> Unset, arpOpc |-> 0,
     sFromPort |-> Unset, sToPort |-> Unset,
     dFromPort |-> Unset, dToPort |-> Unset,
     tcpFlags |-> {}, icmpType |-> Unset, icmpCode |-> Unset,
     connTracking |-> "normal"]

RuleBase ==
    [direction |-> "in", allow |-> TRUE, log |-> FALSE, priority |-> 100,
     remoteSubnets |-> {}, namedSvcPorts |-> {}, cls |-> ClsBase]

\* allow tcp to port 80 from anywhere, reflexive
RuleWebIn ==
    [RuleBase EXCEPT !.priority = 120,
                     !.remoteSubnets = { <<"0.0.0.0", 0>> },
                     !.cls = [ClsBase EXCEPT !.uri = "cls-web", !.etherT = ETH_IP,
                                             !.prot = PROTO_TCP,
                                             !.dFromPort = 80, !.dToPort = 80,
                                             !.connTracking = "reflexive"]]
\* allow arp in both directions
RuleArp ==
    [RuleBase EXCEPT !.direction = "bidirectional", !.priority = 110,
                     !.cls = [ClsBase EXCEPT !.uri = "cls-arp",
                                             !.etherT = ETH_ARP]]
\* deny ipv4 out, logged
RuleDenyOut ==
    [RuleBase EXCEPT !.direction = "out", !.allow = FALSE, !.log = TRUE,
                     !.priority = 90,
                     !.cls = [ClsBase EXCEPT !.uri = "cls-deny",
                                             !.etherT = ETH_IP]]

RuleLists == { <<>>, << RuleArp >>, << RuleWebIn, RuleDenyOut >> }

\* a named service port: tcp 8443 at 10.0.0.2
SvcPortWeb == [address |-> "10.0.0.2", prefixLen |-> 0, proto |-> PROTO_TCP,
               port |-> 8443]
\* the reflexive rule without remote subnets and named service ports
RuleReflexL2 ==
    [RuleWebIn EXCEPT !.remoteSubnets = {}, !.cls.uri = "cls-web-l2"]
\* the reflexive rule with a named service port and no remote subnet
RuleReflexSvc ==
    [RuleWebIn EXCEPT !.remoteSubnets = {}, !.namedSvcPorts = { SvcPortWeb },
                      !.cls.uri = "cls-web-svc"]
\* allow tcp to port 8080 in both directions, remote subnet 10.0.0.1/32,
\* connection tracking normal
RuleBidir ==
    [RuleBase EXCEPT !.direction = "bidirectional", !.priority = 130,
                     !.remoteSubnets = { <<"10.0.0.1", 32>> },
                     !.cls = [ClsBase EXCEPT !.uri = "cls-bidir",
                                             !.etherT = ETH_IP,
                                             !.prot = PROTO_TCP,
                                             !.dFromPort = 8080,
                                             !.dToPort = 8080]]
\* the same rule with a named service port and no remote subnet
RuleBidirSvc ==
    [RuleBidir EXCEPT !.remoteSubnets = {}, !.namedSvcPorts = { SvcPortWeb },
                      !.cls.uri = "cls-bidir-svc"]

CtRuleLists == { << RuleWebIn >>, << RuleReflexL2 >>, << RuleReflexSvc >>,
                 << RuleBidir >>, << RuleBidirSvc >> }

\* deny tcp to port 80 coming from one host, SYN only, not logged
RuleDenyL34 ==
    [RuleBase EXCEPT !.allow = FALSE, !.priority = 140,
                     !.remoteSubnets = { <<"10.0.0.1", 32>> },
                     !.cls = [ClsBase EXCEPT !.uri = "cls-deny-l34",
                                             !.etherT = ETH_IP,
                                             !.prot = PROTO_TCP,
                                             !.dFromPort = 80, !.dToPort = 80,
                                             !.tcpFlags = {"SYN"}]]
\* deny tcp out to a named service port, logged
RuleDenySvc ==
    [RuleDenyL34 EXCEPT !.direction = "out", !.log = TRUE,
                        !.remoteSubnets = {}, !.namedSvcPorts = { SvcPortWeb },
                        !.cls.uri = "cls-deny-svc", !.cls.tcpFlags = {}]
\* deny ipv4 in both directions, no subnets, not logged
RuleDenyL2 ==
    [RuleBase EXCEPT !.direction = "bidirectional", !.allow = FALSE,
                     !.priority = 95,
                     !.cls = [ClsBase EXCEPT !.uri = "cls-deny-l2",
                                             !.etherT = ETH_IP]]
\* deny tcp in, no subnets
RuleDenyProt ==
    [RuleDenyL2 EXCEPT !.direction = "in", !.cls.uri = "cls-deny-prot",
                       !.cls.prot = PROTO_TCP]
\* allow arp requests in
RuleArpReq ==
    [RuleBase EXCEPT !.priority = 115,
                     !.cls = [ClsBase EXCEPT !.uri = "cls-arp-req",
                                             !.etherT = ETH_ARP, !.arpOpc = 1]]

DenyRuleLists == { << RuleDenyL34 >>, << RuleDenySvc >>, << RuleDenyL2 >>,
                   << RuleDenyProt >>, << RuleArpReq, RuleDenyOut >> }

---------------------------------------------------------------------------
(* FlowUtils.cpp *)

CT_NEW == 1
CT_ESTABLISHED == 2
CT_RELATED == 4
CT_REPLY == 8
CT_INVALID == 16
CT_TRACKED == 32

ActDropLog(table, reason, ck) == <<"dropLog", table, reason, ck>>
ActPermitLog(table, dropTable, ck) == <<"permitLog", table, dropTable, ck>>
ActConntrack(flags, zoneReg, table) == <<"ct", flags, zoneReg, table>>

\* a boost::optional argument
None == [present |-> FALSE, val |-> {}]
Some(v) == [present |-> TRUE, val |-> v]

match_group(prio, svnid, dvnid) ==
    (IF svnid # 0 THEN "reg0" :> svnid ELSE NoMatch)
    @@ (IF dvnid # 0 THEN "reg2" :> dvnid ELSE NoMatch)

\* the match fields set by match_protocol; a later proto() replaces an earlier
match_protocol(cls) ==
    (IF cls.prot # Unset THEN "proto" :> cls.prot ELSE NoMatch)
    @@ (IF cls.etherT # 0 THEN "eth_type" :> cls.etherT ELSE NoMatch)
    @@ (IF cls.arpOpc # 0 THEN "proto" :> cls.arpOpc ELSE NoMatch)

TcpFlagBits(flagSet) ==
    (IF "FIN" \in flagSet THEN 1 ELSE 0) + (IF "SYN" \in flagSet THEN 2 ELSE 0)
    + (IF "RST" \in flagSet THEN 4 ELSE 0) + (IF "ACK" \in flagSet THEN 16 ELSE 0)

match_tcp_flags(flagSet) ==
    "tcp_flags" :> <<TcpFlagBits(flagSet), TcpFlagBits(flagSet)>>

ALL_SUBNET == <<"", 0>>

compute_eff_sub(sub) == IF sub.present THEN sub.val ELSE { ALL_SUBNET }

\* network::append of subnets: a subnet as a service port without port
SubnetAsServicePort(ss) ==
    [address |-> ss[1], prefixLen |-> ss[2], proto |-> 0, port |-> 0]

\* make_flow_functor returns NULL for an empty or malformed address
HasFunctor(addr) == addr # "" /\ IsValidAddr(addr)

\* applyRemoteSub / applyServicePort: FALSE when the family of the address
\* does not fit the ethertype
FamilyFits(addr, ethType) ==
    /\ ~(IsV4(addr) /\ ethType # ETH_ARP /\ ethType # ETH_IP)
    /\ ~(~IsV4(addr) /\ ethType # ETH_IPV6)

servicePort(ds) ==
    LET plen == IF ds.prefixLen = 0 /\ ~IsUnspecified(ds.address)
                THEN HostPrefix(ds.address) ELSE ds.prefixLen
    IN (IF ds.port # 0
        THEN ("proto" :> ds.proto) @@ ("tp_dst" :> <<ds.port, 65535>>)
        ELSE NoMatch)
       @@ ("ip_dst" :> <<ds.address, plen>>)

\* RangeMask::getMasks: the (value, mask) cover of [lo, hi]; nothing when
\* the range is unset
RECURSIVE Pow2(_)
Pow2(n) == IF n = 0 THEN 1 ELSE 2 * Pow2(n - 1)

BlockBits(lo, hi) ==
    CHOOSE k \in 0 .. 16 :
        /\ lo % Pow2(k) = 0 /\ lo + Pow2(k) - 1 <= hi
        /\ \A j \in (k + 1) .. 16 : ~(lo % Pow2(j) = 0 /\ lo + Pow2(j) - 1 <= hi)

RECURSIVE RangeMasks(_, _)
RangeMasks(lo, hi) ==
    IF lo > hi THEN {}
    ELSE LET k == BlockBits(lo, hi)
         IN { <<lo, 65536 - Pow2(k)>> } \cup RangeMasks(lo + Pow2(k), hi)

getMasks(from, to) ==
    IF from = Unset /\ to = Unset THEN {}
    ELSE RangeMasks(IF from = Unset THEN to ELSE from,
                    IF to = Unset THEN from ELSE to)

MTp(field, m) == IF m[2] = 0 THEN NoMatch ELSE field :> m

\* variant: without the early return for a classifier that sets a protocol
add_l2classifier_entries_NoProtTest(cls, act, log, nextTable, currentTable, dropTable, priority, cookie, svnid0, dvnid0, isSystemRule) ==
    LET svnid == IF isSystemRule THEN 0 ELSE svnid0
        dvnid == IF isSystemRule THEN 0 ELSE dvnid0
        m == match_protocol(cls) @@ match_group(priority, svnid, dvnid)
        a == IF act = "CA_DENY"
             THEN << ActMeta(0, META_DROP_LOG), ActGo(nextTable) >>
             ELSE << ActGo(nextTable) >>
    IN { FlowEntry(priority, m, a, cookie) }

add_l2classifier_entries(cls, act, log, nextTable, currentTable, dropTable, priority, cookie, svnid0, dvnid0, isSystemRule) ==
    IF cls.prot # Unset THEN {}
    ELSE LET svnid == IF isSystemRule THEN 0 ELSE svnid0
             dvnid == IF isSystemRule THEN 0 ELSE dvnid0
             m == match_protocol(cls) @@ match_group(priority, svnid, dvnid)
             a == IF log
                  THEN IF act = "CA_DENY"
                       THEN << ActDropLog(currentTable, "POLICY_DENY", cookie),
                               ActGo(nextTable) >>
                       ELSE << ActPermitLog(currentTable, dropTable, cookie),
                               ActGo(nextTable) >>
                  ELSE IF act = "CA_DENY"
                       THEN << ActMeta(0, META_DROP_LOG), ActGo(nextTable) >>
                       ELSE << ActGo(nextTable) >>
         IN { FlowEntry(priority, m, a, cookie) }

\* the entry of one iteration of the innermost loop, lines 299-399; the
\* result is a set: empty when the iteration is left by continue
ClassifierEntry(cls, act, log, ss, ds, sm, dm, flagMask, nextTable, currentTable, dropTable, priority, cookie, svnid, dvnid, isSystemRule) ==
    LET etht == cls.etherT
        ct1 == CASE act \in {"CA_REFLEX_FWD_TRACK", "CA_REFLEX_REV_TRACK"} ->
                      "ct_state" :> <<0, CT_TRACKED>>
                 [] act = "CA_REFLEX_REV_ALLOW" ->
                      "ct_state" :> <<CT_TRACKED + CT_ESTABLISHED + CT_REPLY,
                                      CT_TRACKED + CT_ESTABLISHED + CT_REPLY
                                      + CT_INVALID + CT_NEW + CT_RELATED>>
                 [] OTHER -> NoMatch
        base == match_protocol(cls) @@ match_group(priority, svnid, dvnid) @@ ct1
        l34 == act \in {"CA_ALLOW", "CA_REFLEX_FWD_TRACK", "CA_REFLEX_FWD",
                        "CA_REFLEX_FWD_EST"}
        srcFails == l34 /\ HasFunctor(ss[1]) /\ ~FamilyFits(ss[1], etht)
        dstFails == l34 /\ HasFunctor(ds.address) /\ ~FamilyFits(ds.address, etht)
        withFlags == (IF l34 /\ cls.tcpFlags # {}
                      THEN match_tcp_flags(flagMask) ELSE NoMatch) @@ base
        withSrc == (IF l34 /\ HasFunctor(ss[1])
                    THEN "ip_src" :> <<ss[1], ss[2]>> ELSE NoMatch) @@ withFlags
        withDst == (IF l34 /\ HasFunctor(ds.address)
                    THEN servicePort(ds) ELSE NoMatch) @@ withSrc
        withTpSrc == (IF l34 THEN MTp("tp_src", sm) ELSE NoMatch) @@ withDst
        \* the destination port is set only when the service port has not set it
        withTp == withTpSrc @@ (IF l34 THEN MTp("tp_dst", dm) ELSE NoMatch)
        ct3 == CASE act = "CA_REFLEX_FWD" ->
                      "ct_state" :> <<CT_TRACKED + CT_NEW, CT_TRACKED + CT_NEW>>
                 [] act = "CA_REFLEX_FWD_EST" ->
                      "ct_state" :> <<CT_TRACKED + CT_ESTABLISHED,
                                      CT_TRACKED + CT_ESTABLISHED>>
                 [] OTHER -> NoMatch
        m == ct3 @@ withTp
        logAct == IF log THEN << ActPermitLog(currentTable, dropTable, cookie) >>
                         ELSE <<>>
        a == CASE act = "CA_DENY" ->
                    IF log
                    THEN << ActDropLog(currentTable, "POLICY_DENY", cookie),
                            ActGo(nextTable) >>
                    ELSE << ActMeta(0, META_DROP_LOG), ActGo(nextTable) >>
               [] act \in {"CA_REFLEX_FWD_TRACK", "CA_REFLEX_REV_TRACK"} ->
                    << ActConntrack("none", "REG6", nextTable) >>
               [] act = "CA_REFLEX_FWD" ->
                    (IF ~isSystemRule
                     THEN << ActConntrack("commit", "REG6", 255) >> \o logAct
                     ELSE <<>>)
                    \o << ActGo(nextTable) >>
               [] act = "CA_REFLEX_FWD_EST" -> logAct \o << ActGo(nextTable) >>
               [] act \in {"CA_REFLEX_REV_ALLOW", "CA_ALLOW"} ->
                    logAct \o << ActGo(nextTable) >>
               [] OTHER -> <<>>
    IN IF srcFails \/ dstFails THEN {} ELSE { FlowEntry(priority, m, a, cookie) }

\* the entry for CA_REFLEX_REV_RELATED, lines 268-294
RelatedEntry(cls, nextTable, priority, cookie, svnid, dvnid) ==
    IF cls.etherT \in {ETH_IP, ETH_IPV6}
    THEN { FlowEntry(priority,
               match_group(priority, svnid, dvnid)
               @@ ("ct_state" :> <<CT_TRACKED + CT_RELATED + CT_REPLY,
                                   CT_TRACKED + CT_RELATED + CT_REPLY
                                   + CT_ESTABLISHED + CT_INVALID + CT_NEW>>)
               @@ ("eth_type" :> cls.etherT),
               << ActGo(nextTable) >>, cookie) }
    ELSE {}

\* an empty list of port masks becomes the one mask that matches every port
MasksOrAny(masks) == IF masks = {} THEN { <<0, 0>> } ELSE masks

add_classifier_entries(cls, act, log, sourceSub, destSub, destNamedAddresses, nextTable, currentTable, dropTable, priority, cookie, svnid0, dvnid0, isSystemRule) ==
    LET svnid == IF isSystemRule THEN 0 ELSE svnid0
        dvnid == IF isSystemRule THEN 0 ELSE dvnid0
        icmp == cls.prot = 1 /\ (cls.icmpType # Unset \/ cls.icmpCode # Unset)
        srcPorts == MasksOrAny(
                     IF icmp
                     THEN (IF cls.icmpType # Unset
                           THEN { <<cls.icmpType, 65535>> } ELSE {})
                     ELSE getMasks(cls.sFromPort, cls.sToPort))
        dstPorts == MasksOrAny(
                     IF icmp
                     THEN (IF cls.icmpCode # Unset
                           THEN { <<cls.icmpCode, 65535>> } ELSE {})
                     ELSE getMasks(cls.dFromPort, cls.dToPort))
        tcpFlagsVec == IF "EST" \in cls.tcpFlags THEN { {"ACK"}, {"RST"} }
                                                ELSE { cls.tcpFlags }
        effSourceSub == compute_eff_sub(sourceSub)
        effDestSub == compute_eff_sub(destSub)
        effDestSvcPorts ==
            { SubnetAsServicePort(d) : d \in effDestSub }
            \cup (IF destNamedAddresses.present THEN destNamedAddresses.val
                                                ELSE {})
    IN UNION { UNION {
           IF act = "CA_REFLEX_REV_RELATED"
           THEN RelatedEntry(cls, nextTable, priority, cookie, svnid, dvnid)
           ELSE UNION { ClassifierEntry(cls, act, log, ss, ds, x[1], x[2], x[3],
                                        nextTable, currentTable, dropTable,
                                        priority, cookie, svnid, dvnid,
                                        isSystemRule)
                        : x \in srcPorts \X dstPorts \X tcpFlagsVec }
           : ds \in effDestSvcPorts }
       : ss \in effSourceSub }

---------------------------------------------------------------------------
(* SwitchManager: writeFlow replaces the cell, clearFlows empties it.  A   *)
(* handler is the list of writes it performs, applied in order.            *)

WriteOp(key, table, fl) == [key |-> key, table |-> table, fl |-> fl]
ClearOp(key, table) == [key |-> key, table |-> table, fl |-> {}]

RECURSIVE ApplyOps(_, _)
ApplyOps(f, ops) ==
    IF ops = <<>> THEN f
    ELSE ApplyOps([f EXCEPT ![<<Head(ops).key, Head(ops).table>>] = Head(ops).fl],
                  Tail(ops))

\* the cells a list of writes touches
TouchedCells(ops) == { <<ops[i].key, ops[i].table>> : i \in 1 .. Len(ops) }

---------------------------------------------------------------------------
(* handleSecGrpSetUpdate *)

addL34FlowsWithoutSubnet == FALSE

\* EndpointManager::secGrpSetEmpty: no endpoint has exactly this set
secGrpSetEmpty(secGrps) ==
    ~\E u \in Uuids : epStore[u] # NoEp /\ epStore[u].secGroups = secGrps

\* variant: no set is found for the group
getSecGrpSetsForSecGrp_NoSet(uri) == {}

\* EndpointManager::getSecGrpSetsForSecGrp
getSecGrpSetsForSecGrp(uri) ==
    { epStore[u].secGroups :
        u \in { v \in Uuids : epStore[v] # NoEp /\ uri \in epStore[v].secGroups } }

ClassActionOf(rule) ==
    IF rule.allow
    THEN IF rule.cls.connTracking = "reflexive" THEN "CA_REFLEX_FWD"
                                                ELSE "CA_ALLOW"
    ELSE "CA_DENY"

\* the entries one rule appends to the ingress list and to the egress list
\* of its group: the body of the loop over the rules, lines 886-1167
RuleEntries(rule, isSystemRule, secGrpSetId, secGrpCookie, ingress_table, egress_table, after_ingress_table, after_egress_table) ==
    LET cls == rule.cls
        dir == rule.direction
        log == rule.log
        prio == rule.priority
        act == ClassActionOf(rule)
        hasSubs == rule.remoteSubnets # {} \/ rule.namedSvcPorts # {}
        remoteSubs == IF hasSubs THEN Some(rule.remoteSubnets) ELSE None
        namedSvcPorts == IF hasSubs THEN Some(rule.namedSvcPorts) ELSE None
        skipL34 == ~hasSubs /\ ~addL34FlowsWithoutSubnet
        dirIn == dir \in {"bidirectional", "in"}
        dirOut == dir \in {"bidirectional", "out"}
        nextIn == IF act = "CA_DENY" THEN EXP_DROP_TABLE_ID ELSE after_ingress_table
        nextOut == IF act = "CA_DENY" THEN EXP_DROP_TABLE_ID ELSE after_egress_table
        reflex == act = "CA_REFLEX_FWD"
        \* the calls that append to the ingress list: <<action, next table, cookie>>
        inCalls ==
            (IF dirIn
             THEN { <<act, nextIn, secGrpCookie>> }
                  \cup (IF reflex
                        THEN { <<"CA_REFLEX_FWD_TRACK", GROUP_MAP_TABLE_ID,
                                 secGrpCookie>>,
                               <<"CA_REFLEX_FWD_EST", after_ingress_table,
                                 secGrpCookie>> }
                        ELSE {})
             ELSE {})
            \cup
            (IF dirOut /\ reflex
             THEN { <<"CA_REFLEX_REV_TRACK", GROUP_MAP_TABLE_ID, 0>>,
                    <<"CA_REFLEX_REV_ALLOW", after_ingress_table, secGrpCookie>>,
                    <<"CA_REFLEX_REV_RELATED", after_ingress_table,
                      secGrpCookie>> }
             ELSE {})
        \* the calls that append to the egress list
        outCalls ==
            (IF dirIn /\ reflex
             THEN { <<"CA_REFLEX_REV_TRACK", GROUP_MAP_TABLE_ID, 0>>,
                    <<"CA_REFLEX_REV_ALLOW", after_egress_table, secGrpCookie>>,
                    <<"CA_REFLEX_REV_RELATED", after_egress_table,
                      secGrpCookie>> }
             ELSE {})
            \cup
            (IF dirOut
             THEN { <<act, nextOut, secGrpCookie>> }
                  \cup (IF reflex
                        THEN { <<"CA_REFLEX_FWD_TRACK", GROUP_MAP_TABLE_ID,
                                 secGrpCookie>>,
                               <<"CA_REFLEX_FWD_EST", after_egress_table,
                                 secGrpCookie>> }
                        ELSE {})
             ELSE {})
    IN IF skipL34
       THEN [in |-> IF dirIn
                    THEN add_l2classifier_entries(cls, act, log, nextIn,
                             ingress_table, EXP_DROP_TABLE_ID, prio,
                             secGrpCookie, secGrpSetId, 0, isSystemRule)
                    ELSE {},
             out |-> IF dirOut
                     THEN add_l2classifier_entries(cls, act, log, nextOut,
                              egress_table, EXP_DROP_TABLE_ID, prio,
                              secGrpCookie, secGrpSetId, 0, isSystemRule)
                     ELSE {}]
       ELSE [in |-> UNION { add_classifier_entries(cls, c[1], log, remoteSubs,
                                None, None, c[2], ingress_table,
                                EXP_DROP_TABLE_ID, prio, c[3], secGrpSetId, 0,
                                isSystemRule)
                            : c \in inCalls },
             out |-> UNION { add_classifier_entries(cls, c[1], log, None,
                                 remoteSubs, namedSvcPorts, c[2], egress_table,
                                 EXP_DROP_TABLE_ID, prio, c[3], secGrpSetId, 0,
                                 isSystemRule)
                             : c \in outCalls }]

\* what the rules of one group append to its ingress and egress lists
MergeRuleEntries(sys, per) ==
    [sys |-> sys,
     in |-> UNION { e.in : e \in per },
     out |-> UNION { e.out : e \in per }]

\* the loop over the rules of one group, lines 886-1167: a system group
\* fills the system tables and continues to the group tables
GroupRuleEntries(sys, rules, secGrpSetId, ig) ==
    MergeRuleEntries(sys,
        { RuleEntries(rules[i], sys, secGrpSetId,
                      ig[ID_NMSPC_RULE][rules[i].cls.uri],
                      IF sys THEN SYS_SEC_GRP_IN_TABLE_ID
                             ELSE SEC_GROUP_IN_TABLE_ID,
                      IF sys THEN SYS_SEC_GRP_OUT_TABLE_ID
                             ELSE SEC_GROUP_OUT_TABLE_ID,
                      IF sys THEN SEC_GROUP_IN_TABLE_ID ELSE TAP_TABLE_ID,
                      IF sys THEN SEC_GROUP_OUT_TABLE_ID ELSE TAP_TABLE_ID)
          : i \in 1 .. Len(rules) })

\* the entries of one security group of the set, lines 857-1168
GroupEntries(secGrp, secGrpSetId, ig) ==
    GroupRuleEntries(checkIfSystemSecurityGroup(secGrp), policy[secGrp],
                     secGrpSetId, ig)

\* the uris of the classifiers of the set, in the order the handler visits them
RECURSIVE RuleUrisOf(_)
RuleUrisOf(groups) ==
    IF groups = <<>> THEN <<>>
    ELSE [i \in 1 .. Len(policy[Head(groups)]) |-> policy[Head(groups)][i].cls.uri]
         \o RuleUrisOf(Tail(groups))

\* the id generator after handleSecGrpSetUpdate
SecGrpSetIdGen(secGrps, secGrpsIdStr, ig) ==
    IF secGrpSetEmpty(secGrps) THEN ig
    ELSE IdAllocAll(IdAlloc(ig, ID_NMSPC_SECGROUP_SET, secGrpsIdStr),
                    ID_NMSPC_RULE, RuleUrisOf(SortedUris(secGrps)))

\* the priority-2 catcher of a system security group table, lines 1178-1192
SystemDropLogFlow(table) ==
    FlowEntry(2, NoMatch,
              << ActDropLog(table, "NO_REASON", 0), ActGo(EXP_DROP_TABLE_ID) >>,
              COOKIE_TABLE_DROP_FLOW)

\* whether some system group of the set has a rule, lines 886-890
AnySystemSecRuleConfigured(secGrps) ==
    \E g \in secGrps : checkIfSystemSecurityGroup(g) /\ policy[g] # <<>>

\* the four lists of handleSecGrpSetUpdate, lines 852-856 and 1161-1168:
\* every group appends to the lists of its kind
SecGrpLists(secGrps, ge) ==
    [secGrpIn |-> UNION { ge[g].in : g \in { h \in secGrps : ~ge[h].sys } },
     secGrpOut |-> UNION { ge[g].out : g \in { h \in secGrps : ~ge[h].sys } },
     sysSecGrpIn |-> UNION { ge[g].in : g \in { h \in secGrps : ge[h].sys } },
     sysSecGrpOut |-> UNION { ge[g].out : g \in { h \in secGrps : ge[h].sys } }]

\* the writes that end handleSecGrpSetUpdate, lines 1170-1209
SecGrpListWrites(secGrps, secGrpsIdStr, l) ==
    << WriteOp(secGrpsIdStr, SEC_GROUP_IN_TABLE_ID, l.secGrpIn),
       WriteOp(secGrpsIdStr, SEC_GROUP_OUT_TABLE_ID, l.secGrpOut) >>
    \o (IF AnySystemSecRuleConfigured(secGrps)
        THEN << WriteOp("SystemDropLogFlow", SYS_SEC_GRP_IN_TABLE_ID,
                        { SystemDropLogFlow(SYS_SEC_GRP_IN_TABLE_ID) }),
                WriteOp("SystemDropLogFlow", SYS_SEC_GRP_OUT_TABLE_ID,
                        { SystemDropLogFlow(SYS_SEC_GRP_OUT_TABLE_ID) }),
                WriteOp(secGrpsIdStr, SYS_SEC_GRP_IN_TABLE_ID, l.sysSecGrpIn),
                WriteOp(secGrpsIdStr, SYS_SEC_GRP_OUT_TABLE_ID, l.sysSecGrpOut) >>
        ELSE << ClearOp(secGrpsIdStr, SYS_SEC_GRP_IN_TABLE_ID),
                ClearOp(secGrpsIdStr, SYS_SEC_GRP_OUT_TABLE_ID),
                ClearOp("SystemDropLogFlow", SYS_SEC_GRP_IN_TABLE_ID),
                ClearOp("SystemDropLogFlow", SYS_SEC_GRP_OUT_TABLE_ID) >>)

\* the writes of handleSecGrpSetUpdate, given the id generator after its
\* allocations
SecGrpSetWrites(secGrps, secGrpsIdStr, ig) ==
    IF secGrpSetEmpty(secGrps)
    THEN << ClearOp(secGrpsIdStr, SEC_GROUP_IN_TABLE_ID),
            ClearOp(secGrpsIdStr, SEC_GROUP_OUT_TABLE_ID),
            ClearOp(secGrpsIdStr, SYS_SEC_GRP_IN_TABLE_ID),
            ClearOp(secGrpsIdStr, SYS_SEC_GRP_OUT_TABLE_ID) >>
    ELSE SecGrpListWrites(secGrps, secGrpsIdStr,
             SecGrpLists(secGrps,
                 [g \in secGrps |->
                     GroupEntries(g, ig[ID_NMSPC_SECGROUP_SET][secGrpsIdStr], ig)]))

---------------------------------------------------------------------------
(* The cells *)

SetIdStrs == { getSecGrpSetId(S) : S \in SUBSET SecGroups }
DropFlowUris == {"/DropFlowConfig/f1/"}
DscpKeys == { i \o "ipv4" : i \in QosIfaces } \cup { i \o "ipv6" : i \in QosIfaces }
Keys == Uuids \cup SetIdStrs \cup DscpKeys \cup DropFlowUris
        \cup {"static", "DropLogFlow", "SystemDropLogFlow", "DropLogConfig"}
\* the cells some handler writes, and every table for the endpoint keys
Cells ==
    (Uuids \X Tables)
    \cup (SetIdStrs \X { SYS_SEC_GRP_IN_TABLE_ID, SEC_GROUP_IN_TABLE_ID,
                         SYS_SEC_GRP_OUT_TABLE_ID, SEC_GROUP_OUT_TABLE_ID })
    \cup ({"static"} \X Tables)
    \cup ({"DropLogFlow"} \X (SERVICE_BYPASS_TABLE_ID .. OUT_TABLE_ID))
    \cup ({"SystemDropLogFlow"} \X { SYS_SEC_GRP_IN_TABLE_ID,
                                     SYS_SEC_GRP_OUT_TABLE_ID })
    \cup ({"DropLogConfig"} \X { DROP_LOG_TABLE_ID })
    \cup (DropFlowUris \X { DROP_LOG_TABLE_ID })
    \cup (DscpKeys \X { 0 })

---------------------------------------------------------------------------
(* createStaticFlows and handleDropLogPortUpdate *)

FindPort(name) == IF name \in DOMAIN portMap THEN portMap[name] ELSE OFPP_NONE

NoDropLog == [iface |-> "", dst |-> "0.0.0.0", dstSet |-> FALSE, remotePort |-> 0]

\* the strings setDropLog is called with as remote ip: address::from_string
\* fails on the ones that are no address
DropLogRemoteIps == {"10.0.0.1", "fd00::1", "bogus"}
DropLogRemotePorts == {0, 6081}

\* variant: a rejected remote ip leaves every member as it was
setDropLog_RejectWhole(dl, dropLogPort, dropLogRemoteIp, remotePort) ==
    IF IsV4(dropLogRemoteIp)
    THEN [iface |-> dropLogPort, dst |-> dropLogRemoteIp, dstSet |-> TRUE,
          remotePort |-> remotePort]
    ELSE dl

\* setDropLog, lines 166-183: the members after the call.  dstSet records
\* that some call has assigned dropLogDst; the code keeps no such flag
setDropLog(dl, dropLogPort, dropLogRemoteIp, remotePort) ==
    [iface |-> dropLogPort,
     dst |-> IF ~IsValidAddr(dropLogRemoteIp) THEN dl.dst
             ELSE IF ~IsV4(dropLogRemoteIp) THEN dl.dst
             ELSE dropLogRemoteIp,
     dstSet |-> dl.dstSet \/ IsV4(dropLogRemoteIp),
     remotePort |-> remotePort]

\* the writes of handleDropLogPortUpdate
DropLogPortWrites(dl) ==
    IF dl.iface = "" \/ ~IsV4(dl.dst)
    THEN << ClearOp("static", EXP_DROP_TABLE_ID) >>
    ELSE IF FindPort(dl.iface) # OFPP_NONE
    THEN << WriteOp("static", EXP_DROP_TABLE_ID,
               { FlowEntry(0, "metadata" :> <<META_DROP_LOG, META_DROP_LOG>>,
                           << <<"reg", "TUN_DST", 0>>, ActOutput(FindPort(dl.iface)) >>,
                           0) }) >>
    ELSE <<>>

flowEmptySecGroup(emptySecGrpSetId) ==
    FlowEntry(MAX_POLICY_RULE_PRIORITY,
              match_group(MAX_POLICY_RULE_PRIORITY, emptySecGrpSetId, 0),
              << ActGo(TAP_TABLE_ID) >>, 0)

\* variant: the flow matches the metadata under the mask of the access bits
default_out_flow_AccessMask ==
    FlowEntry(1, "metadata" :> <<0, ACCESS_MASK>>,
              << <<"outputReg", "REG7">> >>, 0)

default_out_flow ==
    FlowEntry(1, "metadata" :> <<0, META_OUT_MASK>>,
              << <<"outputReg", "REG7">> >>, 0)

StaticOutFlows ==
    { FlowEntry(1, ("metadata" :> <<POP_VLAN, META_OUT_MASK>>)
                   @@ MTci(4096, 4096),
                << <<"popVlan">>, <<"outputReg", "REG7">> >>, 0),
      FlowEntry(1, "metadata" :> <<PUSH_VLAN, META_OUT_MASK>>,
                << <<"pushVlan">>, <<"regMove", "REG5", "VLAN_VID">>,
                   <<"outputReg", "REG7">> >>, 0),
      FlowEntry(1, "metadata" :> <<UNTAGGED_AND_PUSH_VLAN, META_OUT_MASK>>,
                << <<"outputReg", "REG7">>, <<"pushVlan">>,
                   <<"regMove", "REG5", "VLAN_VID">>,
                   <<"outputReg", "REG7">> >>, 0),
      default_out_flow }

DnsPunt(ethT, proto, ck) ==
    FlowEntry(2, ("eth_type" :> ethT) @@ ("proto" :> proto)
                 @@ ("tp_src" :> <<53, 65535>>)
                 @@ ("metadata" :> <<INGRESS_DIR, ACCESS_META_MASK>>),
              << <<"controller">>, ActGo(OUT_TABLE_ID) >>, ck)

StaticTapFlows ==
    { DnsPunt(ETH_IP, PROTO_TCP, COOKIE_DNS_RESPONSE_V4),
      DnsPunt(ETH_IPV6, PROTO_TCP, COOKIE_DNS_RESPONSE_V6),
      DnsPunt(ETH_IP, PROTO_UDP, COOKIE_DNS_RESPONSE_V4),
      DnsPunt(ETH_IPV6, PROTO_UDP, COOKIE_DNS_RESPONSE_V6),
      FlowEntry(1, NoMatch, << ActGo(OUT_TABLE_ID) >>, 0) }

TableDropFlow(table_id) ==
    FlowEntry(0, NoMatch,
              << ActDropLog(table_id, "NO_REASON", 0), ActGo(EXP_DROP_TABLE_ID) >>,
              COOKIE_TABLE_DROP_FLOW)

\* the writes of createStaticFlows, in the order of the source
StaticWrites(dl, emptySecGrpSetId) ==
    << WriteOp("static", OUT_TABLE_ID, StaticOutFlows),
       WriteOp("static", DROP_LOG_TABLE_ID,
               { FlowEntry(0, NoMatch, << ActGo(SERVICE_BYPASS_TABLE_ID) >>, 0) }) >>
    \o [i \in 1 .. (EXP_DROP_TABLE_ID - SERVICE_BYPASS_TABLE_ID) |->
           WriteOp("DropLogFlow", SERVICE_BYPASS_TABLE_ID + i - 1,
                   { TableDropFlow(SERVICE_BYPASS_TABLE_ID + i - 1) })]
    \o DropLogPortWrites(dl)
    \o << WriteOp("static", SERVICE_BYPASS_TABLE_ID,
                  { FlowEntry(1, NoMatch, << ActGo(GROUP_MAP_TABLE_ID) >>, 0) }),
          WriteOp("static", TAP_TABLE_ID, StaticTapFlows),
          WriteOp("static", SYS_SEC_GRP_IN_TABLE_ID,
                  { FlowEntry(1, NoMatch, << ActGo(SEC_GROUP_IN_TABLE_ID) >>, 0) }),
          WriteOp("static", SYS_SEC_GRP_OUT_TABLE_ID,
                  { FlowEntry(1, NoMatch, << ActGo(SEC_GROUP_OUT_TABLE_ID) >>, 0) }),
          WriteOp("static", SEC_GROUP_OUT_TABLE_ID,
                  { flowEmptySecGroup(emptySecGrpSetId) }),
          WriteOp("static", SEC_GROUP_IN_TABLE_ID,
                  { flowEmptySecGroup(emptySecGrpSetId) }) >>

---------------------------------------------------------------------------
(* handleEndpointUpdate *)

\* lines 538-555: the masks of the vlans trunked on the endpoint's interface
TrunkVlansOf(ep) ==
    IF ep.ifaceName = NoIface THEN {}
    ELSE UNION { UNION { getMasks(r[1], r[2]) : r \in lbStore[l].trunkVlans }
                 : l \in { k \in LbUuids : lbStore[k] # NoLb
                                            /\ lbStore[k].ifaceName = ep.ifaceName } }

PortOf(iface) == IF iface = NoIface THEN OFPP_NONE ELSE FindPort(iface)

\* variant: the SERVICE_BYPASS cell is not cleared
EpAbsentWrites_GroupMapOnly(uuid) ==
    << ClearOp(uuid, GROUP_MAP_TABLE_ID) >>

\* lines 510-516: the writes when the endpoint is gone
EpAbsentWrites(uuid) ==
    << ClearOp(uuid, GROUP_MAP_TABLE_ID), ClearOp(uuid, SERVICE_BYPASS_TABLE_ID) >>

\* variant: the SERVICE_BYPASS cell is not written
EpPresentWrites_GroupMapOnly(uuid, ep, secGrpSetId, zoneId) ==
    << WriteOp(uuid, GROUP_MAP_TABLE_ID,
               EpGroupMapFlows(ep, PortOf(ep.accessIface), PortOf(ep.uplinkIface),
                               secGrpSetId, zoneId, TrunkVlansOf(ep))) >>

\* lines 518-721: the writes for an endpoint of the store
EpPresentWrites(uuid, ep, secGrpSetId, zoneId) ==
    << WriteOp(uuid, GROUP_MAP_TABLE_ID,
               EpGroupMapFlows(ep, PortOf(ep.accessIface), PortOf(ep.uplinkIface),
                               secGrpSetId, zoneId, TrunkVlansOf(ep))),
       WriteOp(uuid, SERVICE_BYPASS_TABLE_ID,
               EpServiceBypassFlows(ep, PortOf(ep.accessIface),
                                    PortOf(ep.uplinkIface))) >>

\* lines 530-536: the zone of the endpoint and the allocator afterwards
EpZone(uuid) ==
    IF conntrackEnabled THEN CtGetId(ctZones, uuid) ELSE { <<NoZone, ctZones>> }

\* lines 513-514
EpZoneRelease(uuid) ==
    IF conntrackEnabled THEN CtErase(ctZones, uuid) ELSE ctZones

\* variant: the flows are built with the zone looked up before getId
handleEndpointUpdate_StaleZone(uuid) ==
    LET ep == epStore[uuid]
    IN IF ep = NoEp
       THEN /\ flows' = ApplyOps(flows, EpAbsentWrites(uuid))
            /\ ctZones' = EpZoneRelease(uuid)
            /\ idGen' = idGen
       ELSE LET idStr == getSecGrpSetId(ep.secGroups)
                ig == IdAlloc(idGen, ID_NMSPC_SECGROUP_SET, idStr)
            IN /\ idGen' = ig
               /\ \E zr \in EpZone(uuid) :
                     /\ ctZones' = zr[2]
                     /\ flows' = ApplyOps(flows,
                                     EpPresentWrites(uuid, ep,
                                         ig[ID_NMSPC_SECGROUP_SET][idStr],
                                         IF uuid \in DOMAIN ctZones
                                         THEN ctZones[uuid] ELSE NoZone))

handleEndpointUpdate(uuid) ==
    LET ep == epStore[uuid]
    IN IF ep = NoEp
       THEN /\ flows' = ApplyOps(flows, EpAbsentWrites(uuid))
            /\ ctZones' = EpZoneRelease(uuid)
            /\ idGen' = idGen
       ELSE LET idStr == getSecGrpSetId(ep.secGroups)
                ig == IdAlloc(idGen, ID_NMSPC_SECGROUP_SET, idStr)
            IN /\ idGen' = ig
               /\ \E zr \in EpZone(uuid) :
                     /\ ctZones' = zr[2]
                     /\ flows' = ApplyOps(flows,
                                     EpPresentWrites(uuid, ep,
                                         ig[ID_NMSPC_SECGROUP_SET][idStr], zr[1]))

---------------------------------------------------------------------------
(* TaskQueue.  A task is the key it was dispatched under and the closure;  *)
(* the closure is the handler (kind) and the values it captured.           *)

Task(kind, key, str, set, num) ==
    [key |-> key, kind |-> kind, str |-> str, set |-> set, num |-> num]

EpTask(uuid) == Task("ep", uuid, uuid, {}, 0)
SetTask(secGrps) ==
    Task("set", "set:" \o getSecGrpSetId(secGrps), getSecGrpSetId(secGrps),
         secGrps, 0)
SecGrpTask(uri) == Task("secgrp", "secgrp:" \o uri, uri, {}, 0)
DscpTask(interface, dscp) == Task("dscp", interface, interface, {}, dscp)

\* TaskQueue::dispatch: the queues that can result.  A task whose key is
\* already queued is coalesced with the queued one: one closure of the two
\* stays queued.
Dispatch(q, task) ==
    IF \E t \in q : t.key = task.key
    THEN { q, { t \in q : t.key # task.key } \cup { task } }
    ELSE { q \cup { task } }

\* dispatch of several tasks whose closures are determined by their keys
DispatchAll(q, tasks) == q \cup tasks

---------------------------------------------------------------------------
(* The event entry points, lines 131-164 *)

\* variant: endpointUpdated without the test of stopping
endpointUpdatedAll_NoGuard(q, uuids) ==
    DispatchAll(q, { EpTask(u) : u \in uuids })

\* endpointUpdated for each uuid of a set
endpointUpdatedAll(q, uuids) ==
    IF stopping THEN q ELSE DispatchAll(q, { EpTask(u) : u \in uuids })

\* secGroupSetUpdated for each set of sets
secGroupSetUpdatedAll(q, sets) ==
    IF stopping THEN q ELSE DispatchAll(q, { SetTask(S) : S \in sets })

\* secGroupUpdated
secGroupUpdated(q, uri) ==
    IF stopping THEN q ELSE DispatchAll(q, { SecGrpTask(uri) })

\* variant: the endpoints are looked up by access interface only
EndpointsByPort_AccessOnly(portName) ==
    { u \in Uuids : epStore[u] # NoEp /\ epStore[u].accessIface = portName }

\* EndpointManager::getEndpointsByAccessIface and getEndpointsByAccessUplink
EndpointsByPort(portName) ==
    { u \in Uuids : epStore[u] # NoEp /\ epStore[u].accessIface = portName }
    \cup { u \in Uuids : epStore[u] # NoEp /\ epStore[u].uplinkIface = portName }

---------------------------------------------------------------------------
(* Changes of the external stores and the notifications they deliver *)

SecGroupsOf(e) == IF e = NoEp THEN {} ELSE { e.secGroups }

\* the endpoint store changes; EndpointManager notifies endpointUpdated and,
\* when the security-group set of the endpoint changed, secGroupSetUpdated
\* for the old and for the new set
EndpointChange(u, e) ==
    /\ budget > 0
    /\ epStore[u] # e
    /\ epStore' = [epStore EXCEPT ![u] = e]
    /\ budget' = budget - 1
    /\ LET sets == IF SecGroupsOf(epStore[u]) = SecGroupsOf(e) THEN {}
                   ELSE SecGroupsOf(epStore[u]) \cup SecGroupsOf(e)
       IN queued' = (IF stopping THEN queued
                     ELSE DispatchAll(DispatchAll(queued, { EpTask(u) }),
                                      { SetTask(S) : S \in sets }))
    /\ lastOp' = [op |-> "EndpointChange", arg |-> u]
    /\ UNCHANGED <<ovsdb, portMap, policy, lbStore, flows, idGen, ctZones,
                   conntrackEnabled, stopping, portPending, dropLogCfg,
                   dlPending, dlThread, dropLog, lastDscp>>

\* a port appears, disappears or changes its number; PortMapper notifies
\* portStatusUpdate, which dispatches handlePortStatusUpdate to the IO service
PortChange(name, no) ==
    /\ budget > 0
    /\ portMap[name] # no
    /\ stopping \/ portPending[name] < MaxPortPending
    /\ portMap' = [portMap EXCEPT ![name] = no]
    /\ budget' = budget - 1
    /\ portPending' = IF stopping THEN portPending
                      ELSE [portPending EXCEPT ![name] = @ + 1]
    /\ lastOp' = [op |-> "PortChange", arg |-> name]
    /\ UNCHANGED <<ovsdb, epStore, policy, lbStore, flows, idGen, ctZones,
                   conntrackEnabled, stopping, queued, dropLogCfg, dlPending,
                   dlThread, dropLog, lastDscp>>

\* the rules of a security group change; PolicyManager notifies secGroupUpdated
PolicyChange(g, rules) ==
    /\ budget > 0
    /\ policy[g] # rules
    /\ policy' = [policy EXCEPT ![g] = rules]
    /\ budget' = budget - 1
    /\ queued' = secGroupUpdated(queued, g)
    /\ lastOp' = [op |-> "PolicyChange", arg |-> g]
    /\ UNCHANGED <<ovsdb, epStore, portMap, lbStore, flows, idGen, ctZones,
                   conntrackEnabled, stopping, portPending, dropLogCfg,
                   dlPending, dlThread, dropLog, lastDscp>>

\* EndpointManager::getEndpointsByIface
EndpointsByIface(name) ==
    { u \in Uuids : epStore[u] # NoEp /\ epStore[u].ifaceName = name }

\* lbIfaceUpdated, lines 1212-1230, for the interface the manager returns
lbIfaceUpdated(q, iface) ==
    IF iface = NoLb \/ iface.ifaceName = NoIface THEN q
    ELSE endpointUpdatedAll(q, EndpointsByIface(iface.ifaceName))

\* a learning bridge interface appears or disappears;
\* LearningBridgeManager notifies lbIfaceUpdated, which runs in the caller
LbChange(l, lb) ==
    /\ budget > 0
    /\ lbStore[l] # lb
    /\ lbStore' = [lbStore EXCEPT ![l] = lb]
    /\ budget' = budget - 1
    /\ queued' = lbIfaceUpdated(queued, lb)
    /\ lastOp' = [op |-> "lbIfaceUpdated", arg |-> l]
    /\ UNCHANGED <<ovsdb, epStore, portMap, policy, flows, idGen, ctZones,
                   conntrackEnabled, stopping, portPending, dropLogCfg,
                   dlPending, dlThread, dropLog, lastDscp>>

\* configUpdated, lines 148-151: enableSync changes no flow cell
configUpdated ==
    /\ lastOp.op # "configUpdated"
    /\ lastOp' = [op |-> "configUpdated", arg |-> ""]
    /\ UNCHANGED <<ovsdb, epStore, portMap, policy, lbStore, flows, idGen, ctZones,
                   conntrackEnabled, stopping, queued, portPending, dropLogCfg,
                   dlPending, dlThread, dropLog, lastDscp, budget>>

\* rdConfigUpdated, lines 1232-1234: the interface is not used
rdConfigUpdated ==
    /\ lastOp.op # "rdConfigUpdated"
    /\ lastOp' = [op |-> "rdConfigUpdated", arg |-> ""]
    /\ UNCHANGED <<ovsdb, epStore, portMap, policy, lbStore, flows, idGen, ctZones,
                   conntrackEnabled, stopping, queued, portPending, dropLogCfg,
                   dlPending, dlThread, dropLog, lastDscp, budget>>

\* the uris secGrpSetIdGarbageCb reads from a canonical string, lines
\* 1332-1341, tabulated over the canonical strings of the model
GarbageCbUrisTable ==
    [str \in { SecGrpSetIdTable[S] : S \in DOMAIN SecGrpSetIdTable } |->
        { Split(str, ",")[i] : i \in { j \in 1 .. Len(Split(str, ",")) :
                                         Split(str, ",")[j] # "" } }]

\* variant: the result of secGrpSetEmpty is returned without the negation
secGrpSetIdGarbageCb_NoNegation(str) ==
    IF GarbageCbUrisTable[str] = {} THEN TRUE
    ELSE secGrpSetEmpty(GarbageCbUrisTable[str])

\* variant: without the test for a string that gives no uri
secGrpSetIdGarbageCb_NoEmptyTest(str) ==
    ~secGrpSetEmpty(GarbageCbUrisTable[str])

\* secGrpSetIdGarbageCb, lines 1330-1345: TRUE keeps the id
secGrpSetIdGarbageCb(str) ==
    IF GarbageCbUrisTable[str] = {} THEN TRUE
    ELSE ~secGrpSetEmpty(GarbageCbUrisTable[str])

\* IdGenerator::collectGarbage: the ids of the strings the callback does not
\* keep are released; kept is the set of the strings the callback keeps
CollectGarbage(f, kept) ==
    [str \in { x \in DOMAIN f : x \in kept } |-> f[str]]

\* AccessFlowManager::cleanup, lines 1347-1362; no handler allocates in the
\* namespace of the first collectGarbage
cleanup ==
    /\ idGen' = [idGen EXCEPT ![ID_NMSPC_SECGROUP_SET] =
                     CollectGarbage(@, { str \in DOMAIN idGen[ID_NMSPC_SECGROUP_SET] :
                                           secGrpSetIdGarbageCb(str) })]
    /\ lastOp' = [op |-> "cleanup", arg |-> ""]
    /\ UNCHANGED <<ovsdb, epStore, portMap, policy, lbStore, flows, ctZones,
                   conntrackEnabled, stopping, queued, portPending, dropLogCfg,
                   dlPending, dlThread, dropLog, lastDscp, budget>>

\* AccessFlowManager::stop
Stop ==
    /\ ~stopping
    /\ stopping' = TRUE
    /\ lastOp' = [op |-> "stop", arg |-> ""]
    /\ UNCHANGED <<ovsdb, epStore, portMap, policy, lbStore, flows, idGen, ctZones,
                   conntrackEnabled, queued, portPending, dropLogCfg, dlPending,
                   dlThread, dropLog, lastDscp, budget>>

---------------------------------------------------------------------------
(* The handlers run by the IO service *)

RunEndpointUpdate(uuid) ==
    /\ EpTask(uuid) \in queued
    /\ queued' = queued \ { EpTask(uuid) }
    /\ handleEndpointUpdate(uuid)
    /\ lastOp' = [op |-> "handleEndpointUpdate", arg |-> uuid]
    /\ UNCHANGED <<ovsdb, epStore, portMap, policy, lbStore, conntrackEnabled, stopping,
                   portPending, dropLogCfg, dlPending, dlThread, dropLog,
                   lastDscp, budget>>

RunSecGrpSetUpdate(secGrps) ==
    /\ SetTask(secGrps) \in queued
    /\ queued' = queued \ { SetTask(secGrps) }
    /\ LET idStr == getSecGrpSetId(secGrps)
           ig == SecGrpSetIdGen(secGrps, idStr, idGen)
       IN /\ idGen' = ig
          /\ flows' = ApplyOps(flows, SecGrpSetWrites(secGrps, idStr, ig))
    /\ lastOp' = [op |-> "handleSecGrpSetUpdate", arg |-> getSecGrpSetId(secGrps)]
    /\ UNCHANGED <<ovsdb, epStore, portMap, policy, lbStore, ctZones, conntrackEnabled,
                   stopping, portPending, dropLogCfg, dlPending, dlThread,
                   dropLog, lastDscp, budget>>

\* handleSecGrpUpdate, lines 794-799
RunSecGrpUpdate(uri) ==
    /\ SecGrpTask(uri) \in queued
    /\ queued' = secGroupSetUpdatedAll(queued \ { SecGrpTask(uri) },
                                       getSecGrpSetsForSecGrp(uri))
    /\ lastOp' = [op |-> "handleSecGrpUpdate", arg |-> uri]
    /\ UNCHANGED <<ovsdb, epStore, portMap, policy, lbStore, flows, idGen, ctZones,
                   conntrackEnabled, stopping, portPending, dropLogCfg,
                   dlPending, dlThread, dropLog, lastDscp, budget>>

\* handlePortStatusUpdate, lines 781-792
RunPortStatusUpdate(portName) ==
    /\ portPending[portName] > 0
    /\ portPending' = [portPending EXCEPT ![portName] = @ - 1]
    /\ queued' = endpointUpdatedAll(queued, EndpointsByPort(portName))
    /\ flows' = IF portName = dropLog.iface
                THEN ApplyOps(flows, DropLogPortWrites(dropLog))
                ELSE flows
    /\ lastOp' = [op |-> "handlePortStatusUpdate", arg |-> portName]
    /\ UNCHANGED <<ovsdb, epStore, portMap, policy, lbStore, idGen, ctZones,
                   conntrackEnabled, stopping, dropLogCfg, dlPending, dlThread,
                   dropLog, lastDscp, budget>>

---------------------------------------------------------------------------
(* dscpQosUpdated and handleDscpQosUpdate *)

DscpFlow(ethT, ofPort, dscp) ==
    FlowEntry(65535, ("eth_type" :> ethT) @@ MInPort(ofPort),
              << <<"setDscp", dscp>>, <<"resubmit", ofPort, 1>> >>, 0)

\* the writes of handleDscpQosUpdate, lines 724-759
DscpWrites(interface, dscp) ==
    << ClearOp(interface \o "ipv4", 0), ClearOp(interface \o "ipv6", 0) >>
    \o (IF dscp = 0 THEN <<>>
        ELSE << WriteOp(interface \o "ipv4", 0,
                        { DscpFlow(ETH_IP, FindPort(interface), dscp) }),
                WriteOp(interface \o "ipv6", 0,
                        { DscpFlow(ETH_IPV6, FindPort(interface), dscp) }) >>)

\* QosManager calls dscpQosUpdated(interface, dscp), lines 136-139: the
\* closure captures dscp
DscpChange(interface, dscp) ==
    /\ budget > 0
    /\ budget' = budget - 1
    /\ lastDscp' = [lastDscp EXCEPT ![interface] = dscp]
    /\ queued' \in (IF stopping THEN { queued }
                    ELSE Dispatch(queued, DscpTask(interface, dscp)))
    /\ lastOp' = [op |-> "dscpQosUpdated", arg |-> interface]
    /\ UNCHANGED <<ovsdb, epStore, portMap, policy, lbStore, flows, idGen, ctZones,
                   conntrackEnabled, stopping, portPending, dropLogCfg,
                   dlPending, dlThread, dropLog>>

RunDscpUpdate(interface) ==
    \E t \in queued :
        /\ t.kind = "dscp" /\ t.key = interface
        /\ queued' = queued \ { t }
        /\ flows' = ApplyOps(flows, DscpWrites(interface, t.num))
        /\ lastOp' = [op |-> "handleDscpQosUpdate", arg |-> interface]
        /\ UNCHANGED <<ovsdb, epStore, portMap, policy, lbStore, idGen, ctZones,
                       conntrackEnabled, stopping, portPending, dropLogCfg,
                       dlPending, dlThread, dropLog, lastDscp, budget>>

---------------------------------------------------------------------------
(* packetDropLogConfigUpdated, lines 1236-1275.  It runs on the thread of  *)
(* the caller: the resolve of the object and the write of the flows are    *)
(* two steps of that thread.                                               *)

DropLogCfgs == {"absent", "disabled", "unfiltered", "filtered"}

\* variant: filtered mode writes the plain goto instead of clearing
DropLogConfigWrites_FilteredPlain(cfg) ==
    CASE cfg = "unfiltered" ->
           << WriteOp("DropLogConfig", DROP_LOG_TABLE_ID,
                      { FlowEntry(2, NoMatch,
                                  << ActMeta(META_DROP_LOG, META_DROP_LOG),
                                     ActGo(SERVICE_BYPASS_TABLE_ID) >>, 0) }) >>
      [] OTHER ->
           << WriteOp("DropLogConfig", DROP_LOG_TABLE_ID,
                      { FlowEntry(2, NoMatch,
                                  << ActGo(SERVICE_BYPASS_TABLE_ID) >>, 0) }) >>

\* the writes for the configuration the invocation resolved
DropLogConfigWrites(cfg) ==
    CASE cfg = "unfiltered" ->
           << WriteOp("DropLogConfig", DROP_LOG_TABLE_ID,
                      { FlowEntry(2, NoMatch,
                                  << ActMeta(META_DROP_LOG, META_DROP_LOG),
                                     ActGo(SERVICE_BYPASS_TABLE_ID) >>, 0) }) >>
      [] cfg = "filtered" ->
           << ClearOp("DropLogConfig", DROP_LOG_TABLE_ID) >>
      [] OTHER ->
           << WriteOp("DropLogConfig", DROP_LOG_TABLE_ID,
                      { FlowEntry(2, NoMatch,
                                  << ActGo(SERVICE_BYPASS_TABLE_ID) >>, 0) }) >>

\* the DropLogConfig object changes in the store; the framework notifies
\* packetDropLogConfigUpdated on some thread
DropLogCfgChange(cfg) ==
    /\ budget > 0
    /\ dlPending < MaxDlPending
    /\ dropLogCfg # cfg
    /\ dropLogCfg' = cfg
    /\ dlPending' = dlPending + 1
    /\ budget' = budget - 1
    /\ lastOp' = [op |-> "DropLogCfgChange", arg |-> cfg]
    /\ UNCHANGED <<ovsdb, epStore, portMap, policy, lbStore, flows, idGen, ctZones,
                   conntrackEnabled, stopping, queued, portPending, dlThread,
                   dropLog, lastDscp>>

\* lines 1237-1242: the thread enters, tests stopping and resolves the object
DlResolve(t) ==
    /\ dlPending > 0
    /\ dlThread[t].pc = "idle"
    /\ dlPending' = dlPending - 1
    /\ dlThread' = IF stopping THEN dlThread
                   ELSE [dlThread EXCEPT ![t] = [pc |-> "write", cfg |-> dropLogCfg]]
    /\ lastOp' = [op |-> "resolve", arg |-> t]
    /\ UNCHANGED <<ovsdb, epStore, portMap, policy, lbStore, flows, idGen, ctZones,
                   conntrackEnabled, stopping, queued, portPending, dropLogCfg,
                   dropLog, lastDscp, budget>>

\* lines 1243-1274: the thread writes the flows of what it resolved
DlWrite(t) ==
    /\ dlThread[t].pc = "write"
    /\ flows' = ApplyOps(flows, DropLogConfigWrites(dlThread[t].cfg))
    /\ dlThread' = [dlThread EXCEPT ![t] = [pc |-> "idle", cfg |-> "absent"]]
    /\ lastOp' = [op |-> "packetDropLogConfigUpdated", arg |-> t]
    /\ UNCHANGED <<ovsdb, epStore, portMap, policy, lbStore, idGen, ctZones,
                   conntrackEnabled, stopping, queued, portPending, dropLogCfg,
                   dlPending, dropLog, lastDscp, budget>>

---------------------------------------------------------------------------
(* packetDropFlowConfigUpdated, lines 1277-1328.  The DropFlowConfig the   *)
(* call resolves is an input of the action.                                *)

NoDropFlow == [present |-> FALSE]

DropFlowBase ==
    [present |-> TRUE, ethType |-> Unset, innerSrc |-> NoAddr,
     innerDst |-> NoAddr, outerSrc |-> NoAddr, outerDst |-> NoAddr,
     tunId |-> Unset, ipProto |-> Unset, srcPort |-> Unset, dstPort |-> Unset]

\* a filter on tcp to port 80 and a filter with no field set
DropFlowWeb == [DropFlowBase EXCEPT !.ethType = ETH_IP, !.ipProto = PROTO_TCP,
                                    !.dstPort = 80]
DropFlowCfgs == { NoDropFlow, DropFlowBase, DropFlowWeb }

\* lines 1287-1323: the match of the filter
DropFlowMatch(cfg) ==
    (IF cfg.ethType # Unset THEN "eth_type" :> cfg.ethType ELSE NoMatch)
    @@ (IF cfg.innerSrc # NoAddr
        THEN "ip_src" :> <<cfg.innerSrc, HostPrefix(cfg.innerSrc)>> ELSE NoMatch)
    @@ (IF cfg.innerDst # NoAddr
        THEN "ip_dst" :> <<cfg.innerDst, HostPrefix(cfg.innerDst)>> ELSE NoMatch)
    @@ (IF cfg.outerSrc # NoAddr
        THEN "outer_ip_src" :> <<cfg.outerSrc, HostPrefix(cfg.outerSrc)>>
        ELSE NoMatch)
    @@ (IF cfg.outerDst # NoAddr
        THEN "outer_ip_dst" :> <<cfg.outerDst, HostPrefix(cfg.outerDst)>>
        ELSE NoMatch)
    @@ (IF cfg.tunId # Unset THEN "tun_id" :> cfg.tunId ELSE NoMatch)
    @@ (IF cfg.ipProto # Unset THEN "proto" :> cfg.ipProto ELSE NoMatch)
    @@ (IF cfg.srcPort # Unset THEN "tp_src" :> <<cfg.srcPort, 65535>>
        ELSE NoMatch)
    @@ (IF cfg.dstPort # Unset THEN "tp_dst" :> <<cfg.dstPort, 65535>>
        ELSE NoMatch)

\* the writes of packetDropFlowConfigUpdated
DropFlowConfigWrites(uri, cfg) ==
    IF ~cfg.present THEN << ClearOp(uri, DROP_LOG_TABLE_ID) >>
    ELSE << WriteOp(uri, DROP_LOG_TABLE_ID,
                    { FlowEntry(1, DropFlowMatch(cfg),
                                << ActMeta(META_DROP_LOG, META_DROP_LOG),
                                   ActGo(SERVICE_BYPASS_TABLE_ID) >>, 0) }) >>

packetDropFlowConfigUpdated(uri, cfg) ==
    /\ budget > 0
    /\ budget' = budget - 1
    /\ flows' = IF stopping THEN flows
                ELSE ApplyOps(flows, DropFlowConfigWrites(uri, cfg))
    /\ lastOp' = [op |-> "packetDropFlowConfigUpdated", arg |-> uri]
    /\ UNCHANGED <<ovsdb, epStore, portMap, policy, lbStore, idGen, ctZones,
                   conntrackEnabled, stopping, queued, portPending, dropLogCfg,
                   dlPending, dlThread, dropLog, lastDscp>>

---------------------------------------------------------------------------
(* The state after the constructor, enableConnTrack (or not) and start() *)

\* OvsdbConnection: the monitor requests and the sync flag

MaxConnects == 2       \* CONNECT events of the OVSDB peer in one run

MaxTransactions == 2   \* calls of sendTransaction in one run

\* the callers' Transaction objects
Transactions == {"txA", "txB"}

\* the monitor requests of one CONNECT, each with an id of getNextId
MonitorRequests == 6

\* OvsdbTable, in the order on_state_change sends the monitor requests
MonitorTables == {"Bridge", "Port", "Interface", "Mirror", "NetFlow", "IPFIX"}

\* the constructor, OvsdbConnection.h line 64: syncMsgsRemaining is not
\* initialised and holds n.  pending, requested and handled are history:
\* the monitor requests of the current connection without a reply, those
\* sent at the last CONNECT, and the replies handled since then
\* id is the request id counter (line 282) and transactions the map of the
\* pending transactions; reqData is send_req_async.data as the request id of
\* the req_cb_data it points to (0: never set), heap the req_cb_data that
\* are allocated, asyncPending and cbReady the state of the uv_async_t
\* (uv_async_send called; callback due), txRead the value of id the caller
\* in sendTransaction has read (-1: no caller in it) and txTrans its
\* Transaction.  issued, sent, notified and freedTwice are history: the ids
\* getNextId returned, the requests handed to the peer, the notifications
\* of the Transaction objects, and whether a req_cb_data was used after
\* its delete
OvsdbConstructed(n) ==
    [connected |-> FALSE, syncComplete |-> FALSE, syncMsgsRemaining |-> n,
     ovsdbState |-> {}, pending |-> {}, requested |-> {}, handled |-> 0,
     connects |-> 0,
     id |-> 0, transactions |-> NoMatch, reqData |-> 0, heap |-> {},
     asyncPending |-> FALSE, cbReady |-> FALSE, txRead |-> 0 - 1,
     txTrans |-> "", issued |-> <<>>, sent |-> <<>>, notified |-> <<>>,
     freedTwice |-> FALSE]

\* setConnected, OvsdbConnection.h lines 97-105
setConnected(o, state) ==
    [o EXCEPT !.connected = state,
              !.syncComplete = IF state THEN @ ELSE FALSE,
              !.ovsdbState = IF state THEN @ ELSE {}]

\* variant: the flag is set when one message still remains
decrSyncMsgsRemaining_AtOne(o) ==
    [o EXCEPT !.syncMsgsRemaining = @ - 1,
              !.syncComplete = IF o.syncMsgsRemaining - 1 = 1 THEN TRUE ELSE @]

\* decrSyncMsgsRemaining, OvsdbConnection.h lines 115-120
decrSyncMsgsRemaining(o) ==
    [o EXCEPT !.syncMsgsRemaining = @ - 1,
              !.syncComplete = IF o.syncMsgsRemaining - 1 = 0 THEN TRUE ELSE @]

\* on_state_change with CONNECT, lines 108-131: the peer connects only
\* when it is not connected
OnConnect ==
    /\ ~ovsdb.connected
    /\ ovsdb.connects < MaxConnects
    /\ ovsdb' = [setConnected(ovsdb, TRUE) EXCEPT
                    !.syncMsgsRemaining = 6,
                    !.pending = MonitorTables,
                    !.requested = MonitorTables,
                    !.handled = 0,
                    !.connects = @ + 1,
                    !.id = @ + MonitorRequests,
                    !.issued = @ \o [i \in 1 .. MonitorRequests |->
                                        <<"monitor", ovsdb.id + i>>]]
    /\ lastOp' = [op |-> "on_state_change", arg |-> "CONNECT"]
    /\ UNCHANGED <<epStore, portMap, policy, lbStore, flows, idGen, ctZones,
                   conntrackEnabled, stopping, queued, portPending, dropLogCfg,
                   dlPending, dlThread, dropLog, lastDscp, budget>>

\* on_state_change with DISCONNECT, TRANSPORT_FAILURE, FAILURE or DELETE,
\* lines 133-148; the requests of the closed connection get no reply
OnConnectionLost(stateChange) ==
    /\ ovsdb.connected \/ (stateChange = "FAILURE" /\ lastOp.arg # "FAILURE")
    /\ ovsdb' = [setConnected(ovsdb, FALSE) EXCEPT !.pending = {}]
    /\ lastOp' = [op |-> "on_state_change", arg |-> stateChange]
    /\ UNCHANGED <<epStore, portMap, policy, lbStore, flows, idGen, ctZones,
                   conntrackEnabled, stopping, queued, portPending, dropLogCfg,
                   dlPending, dlThread, dropLog, lastDscp, budget>>

\* handleMonitor, lines 266-376, for the reply to the monitor request of
\* table; rows tells whether the payload holds the table as an object
handleMonitor(table, rows) ==
    /\ ovsdb.connected
    /\ table \in ovsdb.pending
    /\ ovsdb' = decrSyncMsgsRemaining(
                    [ovsdb EXCEPT !.pending = @ \ {table},
                                  !.ovsdbState = IF rows THEN @ \cup {table} ELSE @,
                                  !.handled = @ + 1])
    /\ lastOp' = [op |-> "handleMonitor", arg |-> table]
    /\ UNCHANGED <<epStore, portMap, policy, lbStore, flows, idGen, ctZones,
                   conntrackEnabled, stopping, queued, portPending, dropLogCfg,
                   dlPending, dlThread, dropLog, lastDscp, budget>>

\* handleMonitorError, lines 378-388: the request is answered by an error
handleMonitorError(table) ==
    /\ ovsdb.connected
    /\ table \in ovsdb.pending
    /\ ovsdb' = [ovsdb EXCEPT !.pending = @ \ {table}]
    /\ lastOp' = [op |-> "handleMonitorError", arg |-> table]
    /\ UNCHANGED <<epStore, portMap, policy, lbStore, flows, idGen, ctZones,
                   conntrackEnabled, stopping, queued, portPending, dropLogCfg,
                   dlPending, dlThread, dropLog, lastDscp, budget>>

\* on_state_change for a lost connection, lines 133-148, while replies that
\* the peer has read are still to be dispatched: pending is kept
OnConnectionLostInFlight(stateChange) ==
    /\ ovsdb.connected
    /\ ovsdb' = setConnected(ovsdb, FALSE)
    /\ lastOp' = [op |-> "on_state_change", arg |-> stateChange]
    /\ UNCHANGED <<epStore, portMap, policy, lbStore, flows, idGen, ctZones,
                   conntrackEnabled, stopping, queued, portPending, dropLogCfg,
                   dlPending, dlThread, dropLog, lastDscp, budget>>

\* handleMonitor, lines 266-376, for a reply dispatched after the connection
\* was lost and before the next CONNECT; the handler does not test connected
handleMonitorAfterLoss(table, rows) ==
    /\ ~ovsdb.connected
    /\ table \in ovsdb.pending
    /\ ovsdb' = decrSyncMsgsRemaining(
                    [ovsdb EXCEPT !.pending = @ \ {table},
                                  !.ovsdbState = IF rows THEN @ \cup {table} ELSE @,
                                  !.handled = @ + 1])
    /\ lastOp' = [op |-> "handleMonitor", arg |-> table]
    /\ UNCHANGED <<epStore, portMap, policy, lbStore, flows, idGen, ctZones,
                   conntrackEnabled, stopping, queued, portPending, dropLogCfg,
                   dlPending, dlThread, dropLog, lastDscp, budget>>

\* the calls of sendTransaction so far
TransactCalls ==
    Cardinality({ i \in DOMAIN ovsdb.issued : ovsdb.issued[i][1] = "transact" })

\* sendTransaction, lines 46-50: the caller takes transactionMutex and reads
\* id for ++id.  id is a plain uint64_t and on_state_change increments it on
\* the event-loop thread without the mutex, so the read and the write of the
\* increment are two steps
sendTransactionRead(trans) ==
    /\ ovsdb.txRead < 0
    /\ TransactCalls < MaxTransactions
    /\ ovsdb' = [ovsdb EXCEPT !.txRead = ovsdb.id, !.txTrans = trans]
    /\ lastOp' = [op |-> "sendTransaction", arg |-> "read id"]
    /\ UNCHANGED <<epStore, portMap, policy, lbStore, flows, idGen, ctZones,
                   conntrackEnabled, stopping, queued, portPending, dropLogCfg,
                   dlPending, dlThread, dropLog, lastDscp, budget>>

\* sendTransaction, lines 50-57: the increment is written, the transaction
\* registered, the req_cb_data allocated and stored in send_req_async.data,
\* and uv_async_send called
sendTransaction ==
    /\ ovsdb.txRead >= 0
    /\ LET reqId == ovsdb.txRead + 1
       IN ovsdb' = [ovsdb EXCEPT
                       !.id = reqId,
                       !.issued = Append(@, <<"transact", reqId>>),
                       !.transactions = (reqId :> ovsdb.txTrans) @@ @,
                       !.heap = @ \cup {reqId},
                       !.reqData = reqId,
                       !.asyncPending = TRUE,
                       !.txRead = 0 - 1,
                       !.txTrans = ""]
    /\ lastOp' = [op |-> "sendTransaction", arg |-> ovsdb.txTrans]
    /\ UNCHANGED <<epStore, portMap, policy, lbStore, flows, idGen, ctZones,
                   conntrackEnabled, stopping, queued, portPending, dropLogCfg,
                   dlPending, dlThread, dropLog, lastDscp, budget>>

\* libuv: the loop takes the pending flag of send_req_async and will call
\* the callback; calls of uv_async_send before that are coalesced
AsyncWake ==
    /\ ovsdb.asyncPending /\ ~ovsdb.cbReady
    /\ ovsdb' = [ovsdb EXCEPT !.asyncPending = FALSE, !.cbReady = TRUE]
    /\ lastOp' = [op |-> "uv_async", arg |-> "send_req_async"]
    /\ UNCHANGED <<epStore, portMap, policy, lbStore, flows, idGen, ctZones,
                   conntrackEnabled, stopping, queued, portPending, dropLogCfg,
                   dlPending, dlThread, dropLog, lastDscp, budget>>

\* send_req_cb, lines 29-39: the request of handle->data is sent and the
\* req_cb_data deleted.  When the req_cb_data was deleted by an earlier run
\* the behaviour is undefined: the request is sent again or not (resend)
send_req_cb(resend) ==
    /\ ovsdb.cbReady
    /\ (ovsdb.reqData \in ovsdb.heap) => resend
    /\ ovsdb' = [ovsdb EXCEPT
                    !.cbReady = FALSE,
                    !.sent = IF resend THEN Append(@, ovsdb.reqData) ELSE @,
                    !.heap = @ \ {ovsdb.reqData},
                    !.freedTwice = @ \/ ovsdb.reqData \notin ovsdb.heap]
    /\ lastOp' = [op |-> "send_req_cb", arg |-> ""]
    /\ UNCHANGED <<epStore, portMap, policy, lbStore, flows, idGen, ctZones,
                   conntrackEnabled, stopping, queued, portPending, dropLogCfg,
                   dlPending, dlThread, dropLog, lastDscp, budget>>

\* handleTransaction, lines 168-175: the response of request reqId
handleTransaction(reqId) ==
    /\ ovsdb' = IF reqId \in DOMAIN ovsdb.transactions
                THEN [ovsdb EXCEPT
                        !.notified = Append(@, <<ovsdb.transactions[reqId],
                                                 "handleTransaction", reqId>>),
                        !.transactions = [r \in (DOMAIN @) \ {reqId} |-> @[r]]]
                ELSE ovsdb
    /\ lastOp' = [op |-> "handleTransaction",
                  arg |-> IF reqId \in DOMAIN ovsdb.transactions
                          THEN ovsdb.transactions[reqId] ELSE "unknown"]
    /\ UNCHANGED <<epStore, portMap, policy, lbStore, flows, idGen, ctZones,
                   conntrackEnabled, stopping, queued, portPending, dropLogCfg,
                   dlPending, dlThread, dropLog, lastDscp, budget>>

\* handleTransactionError, lines 177-192: the error response of request
\* reqId; the entry is erased and the payload logged
handleTransactionError(reqId) ==
    /\ ovsdb' = IF reqId \in DOMAIN ovsdb.transactions
                THEN [ovsdb EXCEPT
                        !.transactions = [r \in (DOMAIN @) \ {reqId} |-> @[r]]]
                ELSE ovsdb
    /\ lastOp' = [op |-> "handleTransactionError",
                  arg |-> IF reqId \in DOMAIN ovsdb.transactions
                          THEN ovsdb.transactions[reqId] ELSE "unknown"]
    /\ UNCHANGED <<epStore, portMap, policy, lbStore, flows, idGen, ctZones,
                   conntrackEnabled, stopping, queued, portPending, dropLogCfg,
                   dlPending, dlThread, dropLog, lastDscp, budget>>

---------------------------------------------------------------------------
(* The initial state and the specifications *)

InitPolicy == [g \in SecGroups |-> IF g = SgSys THEN << RuleArp >>
                                                ELSE << RuleWebIn, RuleDenyOut >>]

InitPorts == [i \in Ifaces |-> IF i = "veth1" THEN 5 ELSE 6]

\* the manager after start(), with no drop-log port configured
InitStores ==
    /\ epStore = [u \in Uuids |-> NoEp]
    /\ portMap = InitPorts
    /\ policy = InitPolicy
    /\ dropLog = NoDropLog
    /\ idGen = [secGroupSet |-> ("" :> 1), l24classifierRule |-> NoMatch]
    /\ flows = ApplyOps([c \in Cells |-> {}], StaticWrites(NoDropLog, 1))
    /\ ctZones = NoMatch
    /\ conntrackEnabled \in BOOLEAN
    /\ stopping = FALSE
    /\ queued = {}
    /\ portPending = [i \in Ifaces |-> 0]
    /\ dropLogCfg = "absent"
    /\ dlPending = 0
    /\ dlThread = [t \in Threads |-> [pc |-> "idle", cfg |-> "absent"]]
    /\ lastDscp = [i \in QosIfaces |-> 0]
    /\ budget = MaxChurn
    /\ lastOp = [op |-> "start", arg |-> ""]

InitAfm == InitStores /\ lbStore = [l \in LbUuids |-> NoLb]

Init == InitAfm /\ ovsdb = OvsdbConstructed(0)

\* the manager started with or without a learning-bridge interface known
InitLb ==
    /\ InitStores /\ lbStore \in [LbUuids -> {NoLb, LbTrunk}]
    /\ ovsdb = OvsdbConstructed(0)

\* the configurations the endpoint store takes for each uuid
EpChoices == [u \in Uuids |-> IF u = "ep1" THEN {EpPlain, EpWeb, NoEp}
                                            ELSE {EpSys, EpNoUplink, NoEp}]

\* endpoints and ports change; the policy is fixed and stop() is not called
NextEp ==
    \/ \E u \in Uuids : \E e \in EpChoices[u] : EndpointChange(u, e)
    \/ \E i \in Ifaces, no \in PortNos \cup {OFPP_NONE} : PortChange(i, no)
    \/ \E u \in Uuids : RunEndpointUpdate(u)
    \/ \E S \in SUBSET SecGroups : RunSecGrpSetUpdate(S)
    \/ \E i \in Ifaces : RunPortStatusUpdate(i)

SpecEp == Init /\ [][NextEp]_vars

\* endpoints and the policy change; the ports are fixed
NextSg ==
    \/ \E u \in Uuids : \E e \in EpChoices[u] : EndpointChange(u, e)
    \/ \E g \in SecGroups, r \in RuleLists : PolicyChange(g, r)
    \/ \E u \in Uuids : RunEndpointUpdate(u)
    \/ \E S \in SUBSET SecGroups : RunSecGrpSetUpdate(S)
    \/ \E g \in SecGroups : RunSecGrpUpdate(g)

SpecSg == Init /\ [][NextSg]_vars

\* the dscp of the interfaces changes
NextQos ==
    \/ \E i \in QosIfaces, d \in Dscps : DscpChange(i, d)
    \/ \E i \in QosIfaces : RunDscpUpdate(i)

SpecQos == Init /\ [][NextQos]_vars

\* the drop-log configuration changes; the notifications run on two threads
NextDropLog ==
    \/ \E c \in DropLogCfgs : DropLogCfgChange(c)
    \/ \E t \in Threads : DlResolve(t)
    \/ \E t \in Threads : DlWrite(t)
    \/ Stop

SpecDropLog == Init /\ [][NextDropLog]_vars

\* the lifecycle: an endpoint and the ports change, stop() may be called.
\* The IO service runs every callback and task dispatched to it: weak
\* fairness of handlePortStatusUpdate and of handleEndpointUpdate, the two
\* handlers of the re-drive.
LiveChoices == [u \in Uuids |-> IF u = "ep1" THEN {EpWeb, NoEp} ELSE {EpNoUplink}]

NextLive ==
    \/ \E u \in Uuids : \E e \in LiveChoices[u] : EndpointChange(u, e)
    \/ \E i \in Ifaces, no \in PortNos \cup {OFPP_NONE} : PortChange(i, no)
    \/ Stop
    \/ \E u \in Uuids : RunEndpointUpdate(u)
    \/ \E S \in SUBSET SecGroups : RunSecGrpSetUpdate(S)
    \/ \E i \in Ifaces : RunPortStatusUpdate(i)

SpecLive ==
    /\ Init /\ [][NextLive]_vars
    /\ \A u \in Uuids : WF_vars(RunEndpointUpdate(u))
    /\ \A i \in Ifaces : WF_vars(RunPortStatusUpdate(i))

\* every event entry point, stop() and every handler
StopChoices == [u \in Uuids |-> IF u = "ep1" THEN {EpTrunk, NoEp}
                                              ELSE {EpSys, NoEp}]

NextStop ==
    \/ \E u \in Uuids : \E e \in StopChoices[u] : EndpointChange(u, e)
    \/ \E no \in {6, OFPP_NONE} : PortChange("veth1", no)
    \/ PolicyChange(SgSys, <<>>)
    \/ DscpChange("veth1", 10)
    \/ DropLogCfgChange("unfiltered")
    \/ \E t \in Threads : DlResolve(t)
    \/ \E t \in Threads : DlWrite(t)
    \/ \E f \in DropFlowUris : packetDropFlowConfigUpdated(f, DropFlowWeb)
    \/ \E l \in LbUuids : \E lb \in {LbTrunk, NoLb} : LbChange(l, lb)
    \/ configUpdated
    \/ rdConfigUpdated
    \/ cleanup
    \/ Stop
    \/ \E u \in Uuids : RunEndpointUpdate(u)
    \/ \E S \in SUBSET SecGroups : RunSecGrpSetUpdate(S)
    \/ \E g \in SecGroups : RunSecGrpUpdate(g)
    \/ \E i \in Ifaces : RunPortStatusUpdate(i)
    \/ \E i \in QosIfaces : RunDscpUpdate(i)

SpecStop == Init /\ [][NextStop]_vars

\* the rules of sg-web change among the connection-tracking rules; one
\* endpoint references the group
NextCt ==
    \/ \E e \in {EpWeb, NoEp} : EndpointChange("ep1", e)
    \/ \E r \in CtRuleLists : PolicyChange(SgWeb, r)
    \/ \E u \in Uuids : RunEndpointUpdate(u)
    \/ \E S \in SUBSET SecGroups : RunSecGrpSetUpdate(S)
    \/ \E g \in SecGroups : RunSecGrpUpdate(g)

SpecCt == Init /\ [][NextCt]_vars

\* the IO service takes the task of the set from the queue to run
\* handleSecGrpSetUpdate: the part of RunSecGrpSetUpdate that concerns the
\* queue.  The handler has no other guard, so both are enabled in the same
\* states, and no other step of the model takes the task.
SetTaskTaken(secGrps) ==
    /\ SetTask(secGrps) \in queued
    /\ queued' = queued \ { SetTask(secGrps) }
    /\ lastOp' = [op |-> "handleSecGrpSetUpdate", arg |-> getSecGrpSetId(secGrps)]

\* the same changes with the IO service running every task dispatched to
\* it: weak fairness of handleSecGrpUpdate and of handleSecGrpSetUpdate,
\* the latter stated on the taking of its task
SpecCtLive ==
    /\ Init /\ [][NextCt]_vars
    /\ \A g \in SecGroups : WF_vars(RunSecGrpUpdate(g))
    /\ \A S \in SUBSET SecGroups : WF_<<queued, lastOp>>(SetTaskTaken(S))

\* the endpoints take every set of the three groups, the handler allocates
\* the id of the set and cleanup() collects the ids
SetIdChoices ==
    { [EpBase EXCEPT !.secGroups = S] : S \in SUBSET (SecGroups \cup {SgComma}) }
    \cup {NoEp}

NextSetId ==
    \/ \E u \in Uuids : \E e \in SetIdChoices : EndpointChange(u, e)
    \/ \E u \in Uuids : RunEndpointUpdate(u)
    \/ \E S \in SUBSET SecGroups : RunSecGrpSetUpdate(S)
    \/ cleanup

SpecSetId == Init /\ [][NextSetId]_vars

\* an endpoint on the port of a learning bridge whose trunk ranges change
NextLb ==
    \/ \E e \in {EpWebTrunk, NoEp} : EndpointChange("ep1", e)
    \/ \E e \in {EpTagged, NoEp} : EndpointChange("ep2", e)
    \/ \E l \in LbUuids : \E lb \in {LbTrunk, LbNarrow, NoLb} : LbChange(l, lb)
    \/ \E no \in {6, OFPP_NONE} : PortChange("veth1", no)
    \/ \E u \in Uuids : RunEndpointUpdate(u)
    \/ \E S \in SUBSET SecGroups : RunSecGrpSetUpdate(S)
    \/ \E i \in Ifaces : RunPortStatusUpdate(i)

SpecLb == InitLb /\ [][NextLb]_vars

\* an endpoint of the group sg-web while the rules of the group are deny
\* rules and rules without remote subnets
NextDeny ==
    \/ \E e \in {EpWeb, NoEp} : EndpointChange("ep1", e)
    \/ \E r \in DenyRuleLists : PolicyChange(SgWeb, r)
    \/ \E u \in Uuids : RunEndpointUpdate(u)
    \/ \E S \in SUBSET SecGroups : RunSecGrpSetUpdate(S)
    \/ \E g \in SecGroups : RunSecGrpUpdate(g)

SpecDeny == Init /\ [][NextDeny]_vars

\* the OVSDB connection alone: the peer connects and loses the connection,
\* the replies to the monitor requests arrive in any order
InitOvsdb ==
    /\ InitAfm
    /\ conntrackEnabled = FALSE
    /\ ovsdb \in { OvsdbConstructed(n) : n \in {0, 1} }

NextOvsdb ==
    \/ OnConnect
    \/ \E c \in {"DISCONNECT", "TRANSPORT_FAILURE", "FAILURE", "DELETE"} :
          OnConnectionLost(c)
    \/ \E t \in MonitorTables, rows \in BOOLEAN : handleMonitor(t, rows)
    \/ \E t \in MonitorTables : handleMonitorError(t)

SpecOvsdb == InitOvsdb /\ [][NextOvsdb]_vars

\* the same connection when replies can be dispatched after the state change
\* that reports the loss of the connection
NextOvsdbLate ==
    \/ OnConnect
    \/ \E c \in {"DISCONNECT", "TRANSPORT_FAILURE", "FAILURE", "DELETE"} :
          OnConnectionLostInFlight(c)
    \/ \E t \in MonitorTables, rows \in BOOLEAN : handleMonitor(t, rows)
    \/ \E t \in MonitorTables : handleMonitorError(t)
    \/ \E t \in MonitorTables, rows \in BOOLEAN : handleMonitorAfterLoss(t, rows)

SpecOvsdbLate == InitOvsdb /\ [][NextOvsdbLate]_vars

\* the peer answers a monitor request of the connection, by a reply or by
\* an error response
MonitorAnswered(table) ==
    \/ \E rows \in BOOLEAN : handleMonitor(table, rows)
    \/ handleMonitorError(table)

\* the connection with a peer that answers every monitor request while the
\* connection is up: weak fairness of the answer to each request
SpecOvsdbLive ==
    /\ InitOvsdb /\ [][NextOvsdb]_vars
    /\ \A t \in MonitorTables : WF_vars(MonitorAnswered(t))

\* callers send transactions while the peer connects and loses the
\* connection; the responses come for the ids issued so far and for id 0,
\* which no request has
NextTx ==
    \/ OnConnect
    \/ \E c \in {"DISCONNECT", "FAILURE"} : OnConnectionLost(c)
    \/ \E trans \in Transactions : sendTransactionRead(trans)
    \/ sendTransaction
    \/ AsyncWake
    \/ \E resend \in BOOLEAN : send_req_cb(resend)
    \/ \E reqId \in 0 .. ovsdb.id : handleTransaction(reqId)
    \/ \E reqId \in 0 .. ovsdb.id : handleTransactionError(reqId)

SpecTx == InitOvsdb /\ [][NextTx]_vars

---------------------------------------------------------------------------
(* setDropLog before start(), then the drop-log port changes *)

\* the state the constructor leaves (lines 78-90): nothing written yet
Constructed ==
    /\ epStore = [u \in Uuids |-> NoEp]
    /\ portMap = InitPorts
    /\ policy = InitPolicy
    /\ lbStore = [l \in LbUuids |-> NoLb]
    /\ dropLog = NoDropLog
    /\ idGen = [secGroupSet |-> NoMatch, l24classifierRule |-> NoMatch]
    /\ flows = [c \in Cells |-> {}]
    /\ ctZones = NoMatch
    /\ conntrackEnabled = FALSE
    /\ stopping = FALSE
    /\ queued = {}
    /\ portPending = [i \in Ifaces |-> 0]
    /\ dropLogCfg = "absent"
    /\ dlPending = 0
    /\ dlThread = [t \in Threads |-> [pc |-> "idle", cfg |-> "absent"]]
    /\ lastDscp = [i \in QosIfaces |-> 0]
    /\ budget = MaxChurn
    /\ lastOp = [op |-> "construct", arg |-> ""]
    /\ ovsdb = OvsdbConstructed(0)

Started == lastOp.op \notin {"construct", "setDropLog"}

\* the agent configures the drop-log port before it starts the manager
CallSetDropLog(dropLogPort, dropLogRemoteIp, remotePort) ==
    /\ ~Started
    /\ budget > 0
    /\ dropLog' = setDropLog(dropLog, dropLogPort, dropLogRemoteIp, remotePort)
    /\ budget' = budget - 1
    /\ lastOp' = [op |-> "setDropLog", arg |-> dropLogRemoteIp]
    /\ UNCHANGED <<ovsdb, epStore, portMap, policy, lbStore, flows, idGen, ctZones,
                   conntrackEnabled, stopping, queued, portPending, dropLogCfg,
                   dlPending, dlThread, lastDscp>>

\* start(), lines 107-120: the namespaces are initialised and
\* createStaticFlows writes the static cells
start ==
    /\ ~Started
    /\ idGen' = IdAlloc(idGen, ID_NMSPC_SECGROUP_SET, "")
    /\ flows' = ApplyOps(flows, StaticWrites(dropLog, 1))
    /\ lastOp' = [op |-> "start", arg |-> ""]
    /\ UNCHANGED <<ovsdb, epStore, portMap, policy, lbStore, ctZones,
                   conntrackEnabled, stopping, queued, portPending, dropLogCfg,
                   dlPending, dlThread, dropLog, lastDscp, budget>>

NextDl ==
    \/ \E i \in Ifaces \cup {""}, ip \in DropLogRemoteIps,
          p \in DropLogRemotePorts : CallSetDropLog(i, ip, p)
    \/ start
    \/ \E i \in Ifaces, no \in PortNos \cup {OFPP_NONE} :
          Started /\ PortChange(i, no)
    \/ \E i \in Ifaces : RunPortStatusUpdate(i)

SpecDl == Constructed /\ [][NextDl]_vars

---------------------------------------------------------------------------
(* Properties of handleEndpointUpdate and of the re-drive by port status   *)

RanEndpointUpdate(u) == lastOp = [op |-> "handleEndpointUpdate", arg |-> u]

Unresolved(ep) ==
    PortOf(ep.accessIface) = OFPP_NONE \/ PortOf(ep.uplinkIface) = OFPP_NONE

\* the zone the allocator holds for the endpoint
ZoneOf(u) ==
    IF conntrackEnabled /\ u \in DOMAIN ctZones THEN ctZones[u] ELSE NoZone

\* the cells of the endpoint computed from the stores of the current state
ExpectedGroupMap(u) ==
    IF epStore[u] = NoEp THEN {}
    ELSE EpGroupMapFlows(epStore[u], PortOf(epStore[u].accessIface),
                         PortOf(epStore[u].uplinkIface),
                         IdOf(idGen, ID_NMSPC_SECGROUP_SET,
                              getSecGrpSetId(epStore[u].secGroups)),
                         ZoneOf(u), TrunkVlansOf(epStore[u]))

ExpectedServiceBypass(u) ==
    IF epStore[u] = NoEp THEN {}
    ELSE EpServiceBypassFlows(epStore[u], PortOf(epStore[u].accessIface),
                              PortOf(epStore[u].uplinkIface))

\* C1: after handleEndpointUpdate(uuid) ran for a uuid the endpoint store
\* does not hold, the cells (uuid, GROUP_MAP) and (uuid, SERVICE_BYPASS) are
\* empty, the conntrack zone of uuid is released when conntrack is enabled,
\* and no table holds a flow keyed by uuid.
C1_AbsentEndpointCleared ==
    \A u \in Uuids :
        (RanEndpointUpdate(u) /\ epStore[u] = NoEp)
        => /\ flows[<<u, GROUP_MAP_TABLE_ID>>] = {}
           /\ flows[<<u, SERVICE_BYPASS_TABLE_ID>>] = {}
           /\ (conntrackEnabled => u \notin DOMAIN ctZones)
           /\ \A t \in Tables : flows[<<u, t>>] = {}

\* the handler ran with conntrack enabled for an endpoint that was added to
\* the store and removed again
C1_Witness ==
    \E u \in Uuids :
        /\ RanEndpointUpdate(u) /\ epStore[u] = NoEp /\ conntrackEnabled
        /\ budget <= MaxChurn - 2

\* C2: when the endpoint exists and its access port or its uplink port is
\* unresolved, handleEndpointUpdate leaves (uuid, GROUP_MAP) and
\* (uuid, SERVICE_BYPASS) empty.
C2_UnresolvedPortEmpties ==
    \A u \in Uuids :
        (RanEndpointUpdate(u) /\ epStore[u] # NoEp /\ Unresolved(epStore[u]))
        => /\ flows[<<u, GROUP_MAP_TABLE_ID>>] = {}
           /\ flows[<<u, SERVICE_BYPASS_TABLE_ID>>] = {}

\* the handler ran for an endpoint with service addresses whose access port
\* is resolved and whose uplink interface has lost its port
C2_Witness ==
    \E u \in Uuids :
        /\ RanEndpointUpdate(u) /\ epStore[u] # NoEp
        /\ epStore[u].serviceIps # {}
        /\ PortOf(epStore[u].accessIface) # OFPP_NONE
        /\ epStore[u].uplinkIface # NoIface
        /\ PortOf(epStore[u].uplinkIface) = OFPP_NONE

\* a port-status update is pending for an interface of the endpoint
RedrivePending(u) ==
    /\ epStore[u] # NoEp /\ ~stopping /\ ~Unresolved(epStore[u])
    /\ \E i \in {epStore[u].accessIface, epStore[u].uplinkIface} :
          portPending[i] > 0

\* the classifier flows of the endpoint with the current port numbers
ClassifiersInstalled(u) ==
    /\ epStore[u] # NoEp /\ ~Unresolved(epStore[u])
    /\ LET ep == epStore[u]
           ap == PortOf(ep.accessIface)
           up == PortOf(ep.uplinkIface)
           id == IdOf(idGen, ID_NMSPC_SECGROUP_SET, getSecGrpSetId(ep.secGroups))
       IN { EpAccessClassifier(ep, ap, up, id, ZoneOf(u)),
            EpUplinkClassifier(ep, ap, up, id, ZoneOf(u)) }
          \subseteq flows[<<u, GROUP_MAP_TABLE_ID>>]

\* C3: if an endpoint exists, stop() is not called and a port-status update
\* is delivered for an interface of the endpoint while both its interfaces
\* have a port number, then eventually (uuid, GROUP_MAP) holds the access and
\* uplink classifiers built with the current port numbers, unless the
\* endpoint is removed, a port is lost again or stop() is called.
C3_RedriveInstalls ==
    \A u \in Uuids :
        RedrivePending(u)
        ~> (\/ ClassifiersInstalled(u)
            \/ stopping \/ epStore[u] = NoEp
            \/ (epStore[u] # NoEp /\ Unresolved(epStore[u])))

\* the re-drive has run: the port of the uplink changed its number, the
\* port-status handler and the endpoint handler ran, and the classifiers
\* carry the new number
C3_Witness ==
    \E u \in Uuids :
        /\ RanEndpointUpdate(u) /\ ClassifiersInstalled(u)
        /\ portMap # InitPorts
        /\ \A i \in Ifaces : portPending[i] = 0

\* no endpoint task is queued and no port-status callback is pending
EpDrained ==
    /\ \A u \in Uuids : EpTask(u) \notin queued
    /\ \A i \in Ifaces : portPending[i] = 0

\* C4: once the endpoint tasks are drained, the cells (uuid, GROUP_MAP) and
\* (uuid, SERVICE_BYPASS) of every uuid are the flow sets computed from the
\* stores as they are then.
C4_DrainedConverged ==
    EpDrained =>
        \A u \in Uuids :
            /\ flows[<<u, GROUP_MAP_TABLE_ID>>] = ExpectedGroupMap(u)
            /\ flows[<<u, SERVICE_BYPASS_TABLE_ID>>] = ExpectedServiceBypass(u)

\* drained after the store changed twice for one uuid, with flows installed
C4_Witness ==
    /\ EpDrained /\ budget = 0
    /\ \E u \in Uuids :
          /\ RanEndpointUpdate(u)
          /\ flows[<<u, GROUP_MAP_TABLE_ID>>] # {}
          /\ \A v \in Uuids \ {u} : epStore[v] = NoEp

---------------------------------------------------------------------------
(* The switch: a packet is looked up in a table among the flows of all the *)
(* cells of that table; the matching flows of highest priority apply.      *)

RECURSIVE BitAnd(_, _)
BitAnd(a, b) ==
    IF a = 0 \/ b = 0 THEN 0
    ELSE (a % 2) * (b % 2) + 2 * BitAnd(a \div 2, b \div 2)

\* a tcp segment to port 80 and an arp request, not yet tracked, of an
\* endpoint whose security-group set has the id reg0
Packets(reg0) ==
    { [reg0 |-> reg0, reg2 |-> 0, eth_type |-> ETH_IP, proto |-> PROTO_TCP,
       ip_src |-> "10.0.0.1", ip_dst |-> "10.0.0.2", tp_src |-> 1024,
       tp_dst |-> 80, tcp_flags |-> 2, ct_state |-> 0],
      [reg0 |-> reg0, reg2 |-> 0, eth_type |-> ETH_ARP, proto |-> 1,
       ip_src |-> "10.0.0.1", ip_dst |-> "10.0.0.2", tp_src |-> 0,
       tp_dst |-> 0, tcp_flags |-> 0, ct_state |-> 0] }

\* prefixes are 0 or the length of a host address in the model
FieldMatches(f, v, p) ==
    CASE f \in {"reg0", "reg2", "eth_type", "proto", "in_port"} -> p[f] = v
      [] f \in {"ip_src", "ip_dst"} -> v[2] = 0 \/ p[f] = v[1]
      [] f \in {"tp_src", "tp_dst", "tcp_flags", "ct_state"} ->
            BitAnd(p[f], v[2]) = v[1]
      [] OTHER -> FALSE

Matches(m, p) == \A f \in DOMAIN m : FieldMatches(f, m[f], p)

TableFlows(t) == UNION { flows[c] : c \in { d \in Cells : d[2] = t } }

Hits(t, p) ==
    LET ms == { f \in TableFlows(t) : Matches(f.match, p) }
    IN { f \in ms : \A g \in ms : g.priority <= f.priority }

\* the table the flow sends the packet to, -1 when it sends it nowhere
GoTable(f) ==
    IF f.action = <<>> THEN -1
    ELSE LET a == f.action[Len(f.action)]
         IN IF a[1] = "go" THEN a[2] ELSE IF a[1] = "ct" THEN a[4] ELSE -1

Forward(t, p) == { GoTable(f) : f \in Hits(t, p) }

---------------------------------------------------------------------------
(* Properties of the security-group tables *)

EmptySetId == IdOf(idGen, ID_NMSPC_SECGROUP_SET, "")

\* C5: a packet of an endpoint without security groups (reg0 is the id of
\* the empty set) is forwarded by SYS_SEC_GRP_OUT and SYS_SEC_GRP_IN to
\* SEC_GROUP_OUT and SEC_GROUP_IN and from there to TAP, whatever sets the
\* other endpoints use.
C5_EmptySetPasses ==
    \A u \in Uuids :
        (/\ epStore[u] # NoEp /\ epStore[u].secGroups = {}
         /\ flows[<<u, GROUP_MAP_TABLE_ID>>] # {})
        => \A p \in Packets(EmptySetId) :
              /\ Forward(SYS_SEC_GRP_OUT_TABLE_ID, p) = { SEC_GROUP_OUT_TABLE_ID }
              /\ Forward(SEC_GROUP_OUT_TABLE_ID, p) = { TAP_TABLE_ID }
              /\ Forward(SYS_SEC_GRP_IN_TABLE_ID, p) = { SEC_GROUP_IN_TABLE_ID }
              /\ Forward(SEC_GROUP_IN_TABLE_ID, p) = { TAP_TABLE_ID }

\* the sets the endpoints of the store reference
SetsInUse == { epStore[u].secGroups : u \in { v \in Uuids : epStore[v] # NoEp } }

\* no update of a security group or of a set is queued
SetDrained == \A t \in queued : t.kind \notin {"set", "secgrp"}

CatchersInstalled ==
    /\ flows[<<"SystemDropLogFlow", SYS_SEC_GRP_IN_TABLE_ID>>]
         = { SystemDropLogFlow(SYS_SEC_GRP_IN_TABLE_ID) }
    /\ flows[<<"SystemDropLogFlow", SYS_SEC_GRP_OUT_TABLE_ID>>]
         = { SystemDropLogFlow(SYS_SEC_GRP_OUT_TABLE_ID) }

CatchersCleared ==
    /\ flows[<<"SystemDropLogFlow", SYS_SEC_GRP_IN_TABLE_ID>>] = {}
    /\ flows[<<"SystemDropLogFlow", SYS_SEC_GRP_OUT_TABLE_ID>>] = {}

\* C6: when a set referenced by an endpoint holds a system security group
\* with a rule and every set update has been handled, the priority-2
\* catchers are installed under "SystemDropLogFlow" in SYS_SEC_GRP_IN and
\* SYS_SEC_GRP_OUT, in whatever order the updates were handled.
C6_CatchersPresent ==
    (SetDrained /\ \E S \in SetsInUse : AnySystemSecRuleConfigured(S))
    => CatchersInstalled

\* C7: when no set referenced by an endpoint holds a system rule and every
\* set update has been handled, the "SystemDropLogFlow" cells of
\* SYS_SEC_GRP_IN and SYS_SEC_GRP_OUT are empty.
C7_CatchersAbsent ==
    (SetDrained /\ ~\E S \in SetsInUse : AnySystemSecRuleConfigured(S))
    => CatchersCleared

\* the writes a queued task performs when it runs in the current state
TaskWrites(t) ==
    CASE t.kind = "ep" ->
           IF epStore[t.str] = NoEp THEN EpAbsentWrites(t.str)
           ELSE EpPresentWrites(t.str, epStore[t.str],
                    IdOf(idGen, ID_NMSPC_SECGROUP_SET,
                         getSecGrpSetId(epStore[t.str].secGroups)),
                    ZoneOf(t.str))
      [] t.kind = "set" ->
           SecGrpSetWrites(t.set, t.str, SecGrpSetIdGen(t.set, t.str, idGen))
      [] t.kind = "dscp" -> DscpWrites(t.str, t.num)
      [] OTHER -> <<>>

\* two lists of writes touch disjoint cells and give the same flows in
\* either order
Commute(w1, w2) ==
    /\ TouchedCells(w1) \cap TouchedCells(w2) = {}
    /\ ApplyOps(flows, w1 \o w2) = ApplyOps(flows, w2 \o w1)

\* C8: tasks queued under distinct keys touch disjoint cells, and the flows
\* after running two of them do not depend on their order.
C8_DistinctKeysDistinctCells ==
    \A t1 \in queued : \A t2 \in queued :
        t1.key # t2.key => Commute(TaskWrites(t1), TaskWrites(t2))

---------------------------------------------------------------------------
(* Properties of the drop-log configuration and of DSCP *)

DropLogCell(cfg) == DropLogConfigWrites(cfg)[1].fl

\* C9: two invocations of packetDropLogConfigUpdated are never both between
\* their resolve and their write, and once every invocation has returned the
\* ("DropLogConfig", DROP_LOG) cell is the one of the configuration in the
\* store.
C9_DropLogSerialized ==
    /\ Cardinality({ t \in Threads : dlThread[t].pc = "write" }) <= 1
    /\ (/\ ~stopping /\ dlPending = 0
        /\ \A t \in Threads : dlThread[t].pc = "idle"
        /\ lastOp.op = "packetDropLogConfigUpdated")
       => flows[<<"DropLogConfig", DROP_LOG_TABLE_ID>>] = DropLogCell(dropLogCfg)

\* the cells of an interface for a dscp value
DscpCell(interface, ethT, dscp) ==
    IF dscp = 0 THEN {} ELSE { DscpFlow(ethT, FindPort(interface), dscp) }

\* C10: once no dscp task of an interface is queued, the flows under
\* interface+"ipv4" and interface+"ipv6" are those of the dscp value of the
\* last dscpQosUpdated for the interface.
C10_LastDscpWins ==
    \A i \in QosIfaces :
        (\A t \in queued : t.key # i)
        => /\ flows[<<i \o "ipv4", 0>>] = DscpCell(i, ETH_IP, lastDscp[i])
           /\ flows[<<i \o "ipv6", 0>>] = DscpCell(i, ETH_IPV6, lastDscp[i])

---------------------------------------------------------------------------
(* Properties of stop() *)

\* the steps that are a call of an event entry point
EntryOps ==
    {"EndpointChange", "PortChange", "PolicyChange", "dscpQosUpdated", "resolve",
     "packetDropFlowConfigUpdated", "lbIfaceUpdated", "configUpdated",
     "rdConfigUpdated"}

\* C11: once stop() has been called, a call of an event entry point enqueues
\* no task, dispatches no callback, starts no drop-log write and changes no
\* flow cell.
C11_DroppedAfterStop ==
    [][(stopping /\ lastOp'.op \in EntryOps)
       => /\ queued' = queued
          /\ portPending' = portPending
          /\ dlThread' = dlThread
          /\ flows' = flows]_vars

\* lbIfaceUpdated was called after stop() for a learning bridge interface
\* that has an endpoint
C11_Witness ==
    /\ stopping
    /\ lastOp.op = "lbIfaceUpdated"
    /\ \E l \in LbUuids :
          lbStore[l] # NoLb /\ EndpointsByIface(lbStore[l].ifaceName) # {}

---------------------------------------------------------------------------
(* Properties of the GROUP_MAP table across the owner keys *)

\* the flows of a table that match on in_port = port at a priority
InPortFlows(t, prio, port) ==
    { f \in TableFlows(t) :
        /\ f.priority = prio
        /\ "in_port" \in DOMAIN f.match
        /\ f.match["in_port"] = port }

\* C12: once the endpoint tasks and the port-status callbacks have run, for
\* every endpoint whose access and uplink ports are resolved the GROUP_MAP
\* table holds exactly one flow of priority 100 with in_port = accessPort.
C12_OneAccessClassifier ==
    EpDrained
    => \A u \in Uuids :
         (epStore[u] # NoEp /\ ~Unresolved(epStore[u]))
         => Cardinality(InPortFlows(GROUP_MAP_TABLE_ID, 100,
                                    PortOf(epStore[u].accessIface))) = 1

\* C13: within one table, across all owner keys, two flow entries with the
\* same match and the same priority are the same entry.
C13_SameMatchSameEntry ==
    \A t \in Tables : \A f \in TableFlows(t) : \A g \in TableFlows(t) :
        (f.match = g.match /\ f.priority = g.priority) => f = g

---------------------------------------------------------------------------
(* Properties of the reserved flow of the empty security-group set *)

\* C14: the id of the empty canonical string stays allocated, and the cells
\* ("static", SEC_GROUP_IN) and ("static", SEC_GROUP_OUT) hold the flow that
\* matches reg0 = that id and goes to TAP.
C14_EmptySetFlowKept ==
    /\ "" \in DOMAIN idGen[ID_NMSPC_SECGROUP_SET]
    /\ \A t \in {SEC_GROUP_IN_TABLE_ID, SEC_GROUP_OUT_TABLE_ID} :
          flows[<<"static", t>>]
            = { flowEmptySecGroup(idGen[ID_NMSPC_SECGROUP_SET][""]) }

\* cleanup() released the id of a set while flows of the set were installed
C14_Witness ==
    /\ lastOp.op = "cleanup"
    /\ DOMAIN idGen[ID_NMSPC_SECGROUP_SET] = {""}
    /\ flows[<<getSecGrpSetId({SgSys}), SYS_SEC_GRP_IN_TABLE_ID>>] # {}

---------------------------------------------------------------------------
(* C15: idempotence of the handlers *)

\* handling the task t again in the current state: the allocators stay as
\* they are and no cell changes
Rehandled(t) ==
    /\ t.kind = "set" => SecGrpSetIdGen(t.set, t.str, idGen) = idGen
    /\ (t.kind = "ep" /\ epStore[t.str] # NoEp)
          => IdAlloc(idGen, ID_NMSPC_SECGROUP_SET,
                     getSecGrpSetId(epStore[t.str].secGroups)) = idGen
    /\ ApplyOps(flows, TaskWrites(t)) = flows

\* the endpoint or set task whose handler ran last
HandledTasks ==
    { t \in { EpTask(u) : u \in Uuids } \cup { SetTask(S) : S \in SUBSET SecGroups } :
        \/ t.kind = "ep" /\ RanEndpointUpdate(t.str)
        \/ t.kind = "set" /\ lastOp = [op |-> "handleSecGrpSetUpdate", arg |-> t.str] }

---------------------------------------------------------------------------
(* C16: the entries of a reflexive allow rule *)

\* the set S has just been compiled and an endpoint references it
Compiled(S) ==
    /\ S \in SetsInUse
    /\ lastOp = [op |-> "handleSecGrpSetUpdate", arg |-> getSecGrpSetId(S)]

\* the connection-tracking state an entry matches, -1 when it matches none
CtStateOf(f) ==
    IF "ct_state" \in DOMAIN f.match THEN f.match["ct_state"][1] ELSE 0 - 1

CtSemantics ==
    [FWD_TRACK |-> 0, REV_TRACK |-> 0,
     FWD |-> CT_TRACKED + CT_NEW,
     FWD_EST |-> CT_TRACKED + CT_ESTABLISHED,
     REV_ALLOW |-> CT_TRACKED + CT_ESTABLISHED + CT_REPLY,
     REV_RELATED |-> CT_TRACKED + CT_RELATED + CT_REPLY]

\* the cell holds an entry of the rule with the semantics sem
HasSem(key, table, sem, rule, ck) ==
    \E f \in flows[<<key, table>>] :
        /\ f.priority = rule.priority
        /\ f.cookie = ck
        /\ CtStateOf(f) = CtSemantics[sem]
        /\ (sem \in {"FWD_TRACK", "REV_TRACK"})
              => f.action = << ActConntrack("none", "REG6", GROUP_MAP_TABLE_ID) >>

\* the tables of the directions of a rule: <<own table, opposite table>>
DirTables(rule, sys) ==
    LET tin == IF sys THEN SYS_SEC_GRP_IN_TABLE_ID ELSE SEC_GROUP_IN_TABLE_ID
        tout == IF sys THEN SYS_SEC_GRP_OUT_TABLE_ID ELSE SEC_GROUP_OUT_TABLE_ID
    IN (IF rule.direction \in {"bidirectional", "in"} THEN { <<tin, tout>> } ELSE {})
       \cup (IF rule.direction \in {"bidirectional", "out"} THEN { <<tout, tin>> }
             ELSE {})

IsReflexiveAllow(rule) == rule.allow /\ rule.cls.connTracking = "reflexive"

ReflexEntriesPresent(S, rule, sys) ==
    \A tt \in DirTables(rule, sys) :
        /\ \A sem \in {"FWD_TRACK", "FWD", "FWD_EST"} :
              HasSem(getSecGrpSetId(S), tt[1], sem, rule,
                     idGen[ID_NMSPC_RULE][rule.cls.uri])
        /\ HasSem(getSecGrpSetId(S), tt[2], "REV_TRACK", rule, 0)
        /\ \A sem \in {"REV_ALLOW", "REV_RELATED"} :
              HasSem(getSecGrpSetId(S), tt[2], sem, rule,
                     idGen[ID_NMSPC_RULE][rule.cls.uri])

\* C16: when a set of security groups has been compiled, every reflexive
\* allow rule of its groups has entries with the FWD_TRACK, FWD and FWD_EST
\* semantics in the table of its direction and with REV_TRACK, REV_ALLOW and
\* REV_RELATED in the table of the opposite direction, with the cookie of
\* the rule, REV_TRACK with cookie 0
C16_ReflexiveEntries ==
    \A S \in SUBSET SecGroups :
        Compiled(S) =>
            \A g \in S : \A i \in 1 .. Len(policy[g]) :
                IsReflexiveAllow(policy[g][i])
                   => ReflexEntriesPresent(S, policy[g][i],
                                           checkIfSystemSecurityGroup(g))

---------------------------------------------------------------------------
(* C17: the two directions of a bidirectional allow rule *)

SwapSrcDst(k) ==
    CASE k = "ip_src" -> "ip_dst"
      [] k = "ip_dst" -> "ip_src"
      [] OTHER -> k

\* the match with the source and the destination address matchers swapped
MirrorMatch(m) == [k \in { SwapSrcDst(x) : x \in DOMAIN m } |-> m[SwapSrcDst(k)]]

\* the actions without their arguments
ActionShape(a) == [i \in DOMAIN a |-> a[i][1]]

\* the entries with the cookie ck of a cell, each as <<priority, cookie,
\* match, action shape>>, the match mirrored when mirror is set
EntryShapes(key, table, ck, mirror) ==
    { << f.priority, f.cookie,
         IF mirror THEN MirrorMatch(f.match) ELSE f.match,
         ActionShape(f.action) >>
      : f \in { h \in flows[<<key, table>>] : h.cookie = ck } }

EntryCount(key, table, ck) ==
    Cardinality({ h \in flows[<<key, table>>] : h.cookie = ck })

IsBidirNormalAllow(rule) ==
    /\ rule.allow
    /\ rule.direction = "bidirectional"
    /\ rule.cls.connTracking = "normal"

Mirrored(key, tin, tout, ck) ==
    /\ EntryShapes(key, tin, ck, TRUE) = EntryShapes(key, tout, ck, FALSE)
    /\ EntryCount(key, tin, ck) = EntryCount(key, tout, ck)

\* C17: when a set of security groups has been compiled, the entries of
\* every bidirectional allow rule with connection tracking normal in the
\* ingress table and in the egress table correspond one to one: same
\* priority, cookie, match and action shape, with the source and destination
\* address matchers swapped
C17_BidirMirror ==
    \A S \in SUBSET SecGroups :
        Compiled(S) =>
            \A g \in S : \A i \in 1 .. Len(policy[g]) :
                IsBidirNormalAllow(policy[g][i])
                   => Mirrored(getSecGrpSetId(S),
                          IF checkIfSystemSecurityGroup(g)
                          THEN SYS_SEC_GRP_IN_TABLE_ID ELSE SEC_GROUP_IN_TABLE_ID,
                          IF checkIfSystemSecurityGroup(g)
                          THEN SYS_SEC_GRP_OUT_TABLE_ID ELSE SEC_GROUP_OUT_TABLE_ID,
                          idGen[ID_NMSPC_RULE][policy[g][i].cls.uri])

---------------------------------------------------------------------------
(* C18: the update of a security group reaches the sets that contain it *)

\* handleSecGrpUpdate(g) has just run, before stop(), and the set S contains
\* g and is referenced by an endpoint
FannedOut(g, S) ==
    /\ lastOp = [op |-> "handleSecGrpUpdate", arg |-> g]
    /\ ~stopping
    /\ S \in SetsInUse
    /\ g \in S

\* handleSecGrpSetUpdate(S) has just run and the cells of S are those of the
\* rules the store holds
Recompiled(S) ==
    /\ lastOp = [op |-> "handleSecGrpSetUpdate", arg |-> getSecGrpSetId(S)]
    /\ Rehandled(SetTask(S))

\* C18: a queued update of a security group is eventually handled, and every
\* set that contains the group and is referenced by an endpoint when it is
\* handled is eventually recompiled from the rules of the store
C18_SecGrpUpdateRecompiles ==
    \A g \in SecGroups :
        /\ (SecGrpTask(g) \in queued)
              ~> (lastOp = [op |-> "handleSecGrpUpdate", arg |-> g])
        /\ \A S \in SUBSET SecGroups : FannedOut(g, S) ~> Recompiled(S)

\* the set of the endpoint has been recompiled after its group changed to
\* the bidirectional rule
C18_Witness ==
    /\ Recompiled({SgWeb})
    /\ policy[SgWeb] = << RuleBidir >>
    /\ flows[<<getSecGrpSetId({SgWeb}), SEC_GROUP_OUT_TABLE_ID>>] # {}

---------------------------------------------------------------------------
(* C19 and C20: the DROP_LOG table *)

\* the packets of Packets(0) arriving on each port
PacketsIn == { MInPort(n) @@ p : n \in PortNos, p \in Packets(0) }

\* the flow sends the packet to SERVICE_BYPASS, by goto or by resubmit
EntersServiceBypass(f) ==
    \E i \in DOMAIN f.action :
        \/ f.action[i] = ActGo(SERVICE_BYPASS_TABLE_ID)
        \/ /\ f.action[i][1] = "resubmit"
           /\ f.action[i][3] = SERVICE_BYPASS_TABLE_ID

\* the flow sets the DROP_LOG bit of the metadata
SetsDropLog(f) ==
    \E i \in DOMAIN f.action : f.action[i] = ActMeta(META_DROP_LOG, META_DROP_LOG)

\* the cell of the drop-log configuration holds the flow of unfiltered mode
UnfilteredHandled ==
    /\ dropLogCfg = "unfiltered"
    /\ ApplyOps(flows, DropLogConfigWrites("unfiltered")) = flows

\* C19: while the drop-log configuration is unfiltered and its flow is
\* installed, every packet the DROP_LOG table sends to SERVICE_BYPASS has
\* the DROP_LOG bit set, whatever port it arrives on
C19_UnfilteredMarksAll ==
    UnfilteredHandled
       => \A p \in PacketsIn :
             \A f \in Hits(DROP_LOG_TABLE_ID, p) :
                 EntersServiceBypass(f) => SetsDropLog(f)

\* no notification of the drop-log configuration is waiting or running
DropLogQuiet ==
    /\ dlPending = 0
    /\ \A t \in Threads : dlThread[t].pc = "idle"

\* C20: with every notification of the drop-log configuration handled, a
\* packet gets the DROP_LOG bit from a per-filter entry (priority 1) of the
\* DROP_LOG table only when the configuration is present, enabled and
\* filtered, and from no entry when the configuration is absent or disabled
C20_FiltersOnlyWhenFiltered ==
    DropLogQuiet
       => \A p \in PacketsIn :
             \A f \in Hits(DROP_LOG_TABLE_ID, p) :
                 SetsDropLog(f)
                    => /\ f.priority = 1 => dropLogCfg = "filtered"
                       /\ dropLogCfg \notin {"absent", "disabled"}

---------------------------------------------------------------------------
(* C21: the cell of the drop-log configuration *)

DropLogConfigCell == <<"DropLogConfig", DROP_LOG_TABLE_ID>>

\* what the cell has to hold for the configuration cfg
ExpectedDropLogConfigCell(cfg) ==
    CASE cfg = "unfiltered" ->
           { FlowEntry(2, NoMatch,
                       << ActMeta(META_DROP_LOG, META_DROP_LOG),
                          ActGo(SERVICE_BYPASS_TABLE_ID) >>, 0) }
      [] cfg \in {"absent", "disabled"} ->
           { FlowEntry(2, NoMatch, << ActGo(SERVICE_BYPASS_TABLE_ID) >>, 0) }
      [] OTHER -> {}

\* C21: when an invocation of packetDropLogConfigUpdated has written, the
\* cell ("DropLogConfig", DROP_LOG) holds the single priority-2 flow that
\* sets DROP_LOG and goes to SERVICE_BYPASS iff the configuration it resolved
\* is present, enabled and unfiltered, the single priority-2 plain goto when
\* that configuration is absent or disabled, and nothing when it is filtered
C21_DropLogConfigCell ==
    [][\A t \in Threads :
          (dlThread[t].pc = "write" /\ dlThread'[t].pc = "idle")
             => flows'[DropLogConfigCell]
                  = ExpectedDropLogConfigCell(dlThread[t].cfg)]_vars

\* an invocation has written the flow of unfiltered mode
C21_Witness ==
    /\ lastOp.op = "packetDropLogConfigUpdated"
    /\ flows[DropLogConfigCell] = ExpectedDropLogConfigCell("unfiltered")
    /\ dropLogCfg = "unfiltered"

---------------------------------------------------------------------------
(* C22, C30: the drop-log port and the cell ("static", EXP_DROP) *)

ExpDropCell == <<"static", EXP_DROP_TABLE_ID>>

\* C22: a setDropLog call whose remote ip is malformed or IPv6 leaves the
\* stored interface name, tunnel destination and remote port unchanged, and
\* the cell ("static", EXP_DROP) holds a flow only when some call has
\* accepted a valid IPv4 destination
C22_RejectedAsWhole ==
    /\ [][(lastOp'.op = "setDropLog" /\ ~IsV4(lastOp'.arg))
            => /\ dropLog'.iface = dropLog.iface
               /\ dropLog'.dst = dropLog.dst
               /\ dropLog'.remotePort = dropLog.remotePort]_vars
    /\ [](flows[ExpDropCell] # {} => dropLog.dstSet)

\* the flow handleDropLogPortUpdate builds for the port number no
ExpDropFlow(no) ==
    FlowEntry(0, "metadata" :> <<META_DROP_LOG, META_DROP_LOG>>,
              << <<"reg", "TUN_DST", 0>>, ActOutput(no) >>, 0)

\* no port-status callback of the drop-log interface is waiting
DropLogPortQuiet ==
    dropLog.iface \in Ifaces => portPending[dropLog.iface] = 0

\* C30: once start() has run and the port-status updates of the drop-log
\* interface are handled, the cell ("static", EXP_DROP) is non-empty only if
\* an interface and a valid IPv4 destination are configured and the interface
\* resolves to a port, and then it holds the single flow that matches the
\* DROP_LOG bit and outputs to the port number the interface has now
C30_ExpDropFollowsPort ==
    (Started /\ DropLogPortQuiet /\ flows[ExpDropCell] # {})
       => /\ dropLog.iface # ""
          /\ dropLog.dstSet
          /\ FindPort(dropLog.iface) # OFPP_NONE
          /\ flows[ExpDropCell] = { ExpDropFlow(FindPort(dropLog.iface)) }

---------------------------------------------------------------------------
(* C23: the set-metadata actions *)

\* the set-metadata actions of the flows installed
MetaActions ==
    UNION { { f.action[i] : i \in { j \in DOMAIN f.action :
                                      f.action[j][1] = "metadata" } }
            : f \in UNION { flows[c] : c \in Cells } }

\* the metadata after the masked write a on the metadata x
MetaWrite(x, a) == (x - BitAnd(x, a[3])) + BitAnd(a[2], a[3])

\* twelve-bit metadata values the write is tried on
MetaSamples == {0, 1024, 2305, 4095}

\* the mask of a is the mask of the field or fields its value writes: the
\* DROP_LOG bit, the direction field, or direction and output field together
FieldMask(a) ==
    /\ a[3] \in {META_DROP_LOG, ACCESS_META_MASK, ACCESS_MASK}
    /\ a[3] = META_DROP_LOG => a[2] \in {0, META_DROP_LOG}
    /\ a[3] = ACCESS_META_MASK => a[2] \in {INGRESS_DIR, EGRESS_DIR}
    /\ a[3] = ACCESS_MASK =>
          /\ BitAnd(a[2], ACCESS_META_MASK) \in {INGRESS_DIR, EGRESS_DIR}
          /\ BitAnd(a[2], META_OUT_MASK)
               \in {POP_VLAN, PUSH_VLAN, UNTAGGED_AND_PUSH_VLAN}

---------------------------------------------------------------------------
(* C27, C28: deny rules and rules without remote subnets *)

\* the rule compiles in L3/L4 mode
IsL34(rule) ==
    \/ rule.remoteSubnets # {}
    \/ rule.namedSvcPorts # {}
    \/ addL34FlowsWithoutSubnet

\* the allow rule with the classifier and subnets of rule
AllowTwin(rule) == [rule EXCEPT !.allow = TRUE, !.cls.connTracking = "normal"]

\* the entries of the allow twin, for the set id and cookie of the rule
TwinEntries(S, rule, sys) ==
    RuleEntries(AllowTwin(rule), sys,
                idGen[ID_NMSPC_SECGROUP_SET][getSecGrpSetId(S)],
                idGen[ID_NMSPC_RULE][rule.cls.uri],
                IF sys THEN SYS_SEC_GRP_IN_TABLE_ID ELSE SEC_GROUP_IN_TABLE_ID,
                IF sys THEN SYS_SEC_GRP_OUT_TABLE_ID ELSE SEC_GROUP_OUT_TABLE_ID,
                IF sys THEN SEC_GROUP_IN_TABLE_ID ELSE TAP_TABLE_ID,
                IF sys THEN SEC_GROUP_OUT_TABLE_ID ELSE TAP_TABLE_ID)

\* the entries of a rule in a cell are those with its cookie and priority
EntriesOf(S, table, rule) ==
    { f \in flows[<<getSecGrpSetId(S), table>>] :
        /\ f.cookie = idGen[ID_NMSPC_RULE][rule.cls.uri]
        /\ f.priority = rule.priority }

IsDenyAction(a, table) ==
    \/ a = << ActMeta(0, META_DROP_LOG), ActGo(EXP_DROP_TABLE_ID) >>
    \/ /\ Len(a) = 2
       /\ a[1][1] = "dropLog"
       /\ a[2] = ActGo(EXP_DROP_TABLE_ID)

DenyLikeAllow(S, rule, sys) ==
    LET twin == TwinEntries(S, rule, sys)
        tin == IF sys THEN SYS_SEC_GRP_IN_TABLE_ID ELSE SEC_GROUP_IN_TABLE_ID
        tout == IF sys THEN SYS_SEC_GRP_OUT_TABLE_ID ELSE SEC_GROUP_OUT_TABLE_ID
    IN /\ { f.match : f \in EntriesOf(S, tin, rule) }
            = { f.match : f \in twin.in }
       /\ { f.match : f \in EntriesOf(S, tout, rule) }
            = { f.match : f \in twin.out }
       /\ \A f \in EntriesOf(S, tin, rule) : IsDenyAction(f.action, tin)
       /\ \A f \in EntriesOf(S, tout, rule) : IsDenyAction(f.action, tout)

\* C27: when a set of security groups has been compiled, the entries of
\* every deny rule compiled in L3/L4 mode have the matches of the entries of
\* the allow rule with the same classifier and subnets (source subnet,
\* destination and service port, TCP flags, L4 port masks), and differ from
\* them only in the action, which is the deny action
C27_DenyMatchesLikeAllow ==
    \A S \in SUBSET SecGroups :
        Compiled(S) =>
            \A g \in S : \A i \in 1 .. Len(policy[g]) :
                (~policy[g][i].allow /\ IsL34(policy[g][i]))
                   => DenyLikeAllow(S, policy[g][i],
                                    checkIfSystemSecurityGroup(g))

\* the cell of the set holds exactly one entry of the rule in the table,
\* matching the group, the ethertype and the ARP opcode if set, and going to
\* the drop table for deny and to the table after for allow
OneL2Entry(S, rule, sys, table, after) ==
    LET es == EntriesOf(S, table, rule)
        setId == idGen[ID_NMSPC_SECGROUP_SET][getSecGrpSetId(S)]
    IN /\ Cardinality(es) = 1
       /\ \A f \in es :
             /\ DOMAIN f.match \subseteq {"reg0", "eth_type", "proto"}
             /\ ~sys => ("reg0" \in DOMAIN f.match /\ f.match["reg0"] = setId)
             /\ rule.cls.etherT # 0
                   => ("eth_type" \in DOMAIN f.match
                       /\ f.match["eth_type"] = rule.cls.etherT)
             /\ rule.cls.arpOpc # 0
                   => ("proto" \in DOMAIN f.match
                       /\ f.match["proto"] = rule.cls.arpOpc)
             /\ f.action[Len(f.action)]
                  = ActGo(IF rule.allow THEN after ELSE EXP_DROP_TABLE_ID)

AfterTable(sys, table) == IF sys THEN table + 1 ELSE TAP_TABLE_ID

---------------------------------------------------------------------------
(* C29: an endpoint update with an unresolved port and the allocators *)

\* C29: a run of handleEndpointUpdate for an endpoint that exists and whose
\* access or uplink port does not resolve leaves the id generator and the
\* conntrack zone allocator as they were
C29_UnresolvedAllocatesNothing ==
    [][\A u \in Uuids :
          (/\ lastOp' = [op |-> "handleEndpointUpdate", arg |-> u]
           /\ EpTask(u) \in queued /\ EpTask(u) \notin queued'
           /\ epStore[u] # NoEp
           /\ Unresolved(epStore[u]))
             => (idGen' = idGen /\ ctZones' = ctZones)]_vars

---------------------------------------------------------------------------
(* C24: cleanup() and the ids of the security-group sets *)

\* some endpoint has the set whose canonical string is str
Referenced(str) ==
    \E u \in Uuids :
        /\ epStore[u] # NoEp
        /\ getSecGrpSetId(epStore[u].secGroups) = str

---------------------------------------------------------------------------
(* C25: the monitor requests and syncComplete *)

---------------------------------------------------------------------------
(* The endpoint flows when the zone allocator fails                        *)

IsReg6(a) == a[1] = "reg" /\ a[2] = "REG6"

\* the flow without its loads of reg6
StripReg6(f) ==
    [f EXCEPT !.action = SelectSeq(@, LAMBDA a : ~IsReg6(a))]

\* handleEndpointUpdate ran for an endpoint of the store with conntrack
\* enabled and the allocator holds no zone for it: getId returned 0xffff
ZoneFailed(u) ==
    /\ RanEndpointUpdate(u) /\ epStore[u] # NoEp
    /\ conntrackEnabled /\ u \notin DOMAIN ctZones

\* C31: when conntrack is enabled and the zone allocator reports failure
\* (id 0xffff) for an endpoint, handleEndpointUpdate still writes the
\* complete set of classifier, DHCP, trunk and floating-IP flows of the
\* endpoint, that is the flows written for an allocated zone less their
\* loads of reg6, and no flow written for the endpoint sets reg6.
C31_ZoneFailureWritesAll ==
    \A u \in Uuids :
        ZoneFailed(u) =>
            LET ep == epStore[u]
                id == IdOf(idGen, ID_NMSPC_SECGROUP_SET,
                           getSecGrpSetId(ep.secGroups))
                withZone == EpGroupMapFlows(ep, PortOf(ep.accessIface),
                                            PortOf(ep.uplinkIface), id, 1,
                                            TrunkVlansOf(ep))
            IN /\ flows[<<u, GROUP_MAP_TABLE_ID>>]
                      = { StripReg6(f) : f \in withZone }
               /\ flows[<<u, SERVICE_BYPASS_TABLE_ID>>]
                      = ExpectedServiceBypass(u)
               /\ \A t \in {GROUP_MAP_TABLE_ID, SERVICE_BYPASS_TABLE_ID} :
                     \A f \in flows[<<u, t>>] :
                        \A i \in DOMAIN f.action : ~IsReg6(f.action[i])

\* the allocator failed for a trunked endpoint with DHCP and a floating
\* address whose ports are resolved, and its classifiers are installed
C31_Witness ==
    \E u \in Uuids :
        /\ ZoneFailed(u) /\ epStore[u] = EpWebTrunk
        /\ ~Unresolved(epStore[u])
        /\ TrunkVlansOf(epStore[u]) # {}
        /\ \E f \in flows[<<u, GROUP_MAP_TABLE_ID>>] : f.priority = 500
        /\ \E f \in flows[<<u, GROUP_MAP_TABLE_ID>>] : f.priority = 100

---------------------------------------------------------------------------
(* The OUT table: frames classified by the flows of an endpoint            *)

\* the frames of the check: a tcp segment, a DHCPv4 request, a frame to the
\* floating address and one from it, a frame to the service address and one
\* from it; each untagged, tagged with the VLAN of the endpoints and tagged
\* with another VLAN; tags holds the VIDs, the outer tag first
FrameHeaders ==
    { [eth_type |-> ETH_IP, proto |-> PROTO_TCP, ip_src |-> "10.0.0.1",
       ip_dst |-> "10.0.0.2", tp_src |-> 1024, tp_dst |-> 80],
      [eth_type |-> ETH_IP, proto |-> PROTO_UDP, ip_src |-> "0.0.0.0",
       ip_dst |-> "255.255.255.255", tp_src |-> 68, tp_dst |-> 67],
      [eth_type |-> ETH_IP, proto |-> PROTO_TCP, ip_src |-> "10.0.0.2",
       ip_dst |-> "5.5.5.5", tp_src |-> 1024, tp_dst |-> 80],
      [eth_type |-> ETH_IP, proto |-> PROTO_TCP, ip_src |-> "5.5.5.5",
       ip_dst |-> "10.0.0.2", tp_src |-> 80, tp_dst |-> 1024],
      [eth_type |-> ETH_IP, proto |-> PROTO_TCP, ip_src |-> "10.0.0.1",
       ip_dst |-> "10.9.9.9", tp_src |-> 1024, tp_dst |-> 80],
      [eth_type |-> ETH_IP, proto |-> PROTO_TCP, ip_src |-> "10.9.9.9",
       ip_dst |-> "10.0.0.1", tp_src |-> 80, tp_dst |-> 1024] }

Frames ==
    { h @@ [in_port |-> n, tags |-> tg, metadata |-> 0, reg5 |-> 0,
            reg7 |-> 0, reg0 |-> 0, reg2 |-> 0, tcp_flags |-> 2,
            ct_state |-> 0]
      : h \in FrameHeaders, n \in PortNos, tg \in { <<>>, <<100>>, <<7>> } }

\* the tag control information of the frame: the VID and the bit 0x1000
FrameTci(p) == IF p.tags = <<>> THEN 0 ELSE 4096 + p.tags[1]

FrameFieldMatches(f, v, p) ==
    CASE f = "vlan" -> FrameTci(p) = 4096 + v
      [] f = "tci" -> BitAnd(FrameTci(p), v[2]) = v[1]
      [] f = "metadata" -> BitAnd(p.metadata, v[2]) = v[1]
      [] OTHER -> FieldMatches(f, v, p)

FrameMatches(m, p) == \A f \in DOMAIN m : FrameFieldMatches(f, m[f], p)

\* write_metadata and load of a register
ApplyAction(a, p) ==
    CASE a[1] = "metadata" ->
            [p EXCEPT !.metadata = (@ - BitAnd(@, a[3])) + BitAnd(a[2], a[3])]
      [] a[1] = "reg" /\ a[2] = "REG5" -> [p EXCEPT !.reg5 = a[3]]
      [] a[1] = "reg" /\ a[2] = "REG7" -> [p EXCEPT !.reg7 = a[3]]
      [] a[1] = "reg" /\ a[2] = "REG0" -> [p EXCEPT !.reg0 = a[3]]
      [] a[1] = "popVlan" -> [p EXCEPT !.tags = Tail(@)]
      [] a[1] = "pushVlan" -> [p EXCEPT !.tags = <<0>> \o @]
      [] a[1] = "regMove" -> [p EXCEPT !.tags = <<p.reg5>> \o Tail(@)]
      [] OTHER -> p

RECURSIVE ApplyActions(_, _)
ApplyActions(acts, p) ==
    IF acts = <<>> THEN p
    ELSE ApplyActions(Tail(acts), ApplyAction(Head(acts), p))

\* the copies the action list outputs: the port and the tags of each
RECURSIVE Emit(_, _)
Emit(acts, p) ==
    IF acts = <<>> THEN <<>>
    ELSE (IF Head(acts)[1] = "outputReg" THEN << <<p.reg7, p.tags>> >>
          ELSE IF Head(acts)[1] = "output" THEN << <<Head(acts)[2], p.tags>> >>
          ELSE <<>>)
         \o Emit(Tail(acts), ApplyAction(Head(acts), p))

\* the frames as they reach the OUT table after a flow of the endpoint that
\* sends them on in the pipeline classified them
Classified(u) ==
    { ApplyActions(f.action, p) :
        <<f, p>> \in { fp \in (flows[<<u, GROUP_MAP_TABLE_ID>>]
                               \cup flows[<<u, SERVICE_BYPASS_TABLE_ID>>])
                              \X Frames :
                       GoTable(fp[1]) >= 0 /\ FrameMatches(fp[1].match, fp[2]) } }

OutHits(p) ==
    LET ms == { f \in TableFlows(OUT_TABLE_ID) : FrameMatches(f.match, p) }
    IN { f \in ms : \A g \in ms : g.priority <= f.priority }

AccessOut(p) == BitAnd(p.metadata, META_OUT_MASK)

\* no flow between the classification and the OUT table changes the tags,
\* reg5, reg7 or the ACCESS_OUT bits of the metadata
PipelineKeepsOut ==
    \A t \in SYS_SEC_GRP_IN_TABLE_ID .. TAP_TABLE_ID :
        \A f \in TableFlows(t) : \A i \in DOMAIN f.action :
            LET a == f.action[i]
            IN /\ a[1] \notin {"popVlan", "pushVlan", "regMove"}
               /\ a[1] = "reg" => a[2] \notin {"REG5", "REG7"}
               /\ a[1] = "metadata" => BitAnd(a[3], META_OUT_MASK) = 0

\* the frame is output to the port of reg7 and nowhere else, and the flow
\* is one of the four static flows of priority 1
OutToReg7(p) ==
    /\ OutHits(p) # {} /\ OutHits(p) \subseteq StaticOutFlows
    /\ \A h \in OutHits(p) :
          /\ h.priority = 1
          /\ Emit(h.action, p) # <<>>
          /\ \A i \in DOMAIN Emit(h.action, p) : Emit(h.action, p)[i][1] = p.reg7

---------------------------------------------------------------------------
(* The canonical id of a set and the set read back from it                 *)

\* C33: for every security-group set S the endpoints take, the uris that
\* secGrpSetIdGarbageCb reads from getSecGrpSetId(S), splitting at ',' and
\* dropping the empty tokens, are exactly S, so that the callback keeps the
\* id of S exactly when S is empty or some endpoint has the set S; the
\* sets include one with a uri that holds a comma.
C33_SetIdRoundTrip ==
    \A u \in Uuids :
        epStore[u] # NoEp =>
            LET S == epStore[u].secGroups
            IN /\ GarbageCbUrisTable[getSecGrpSetId(S)] = S
               /\ secGrpSetIdGarbageCb(getSecGrpSetId(S))

---------------------------------------------------------------------------
(* Trunk passthrough flows after a change of a learning-bridge interface   *)

\* the tci matches of the VLANs trunked now on the interface of the endpoint
TrunkedTci(u) ==
    IF epStore[u] = NoEp THEN {}
    ELSE { <<4096 + m[1], 4096 + (m[2] % 4096)>>
           : m \in TrunkVlansOf(epStore[u]) }

\* C34: once the updates dispatched for the endpoints and the port-status
\* updates have run, the GROUP_MAP cell of no endpoint holds a priority-500
\* trunk passthrough flow for a VLAN that no learning-bridge interface on
\* the interface of the endpoint trunks, also after an interface was removed
\* or its ranges shrank and lbIfaceUpdated(uuid) was handled.
C34_NoStaleTrunkFlows ==
    (EpDrained /\ \A i \in Ifaces : portPending[i] = 0)
    => \A u \in Uuids : \A f \in flows[<<u, GROUP_MAP_TABLE_ID>>] :
          f.priority = 500 => f.match["tci"] \in TrunkedTci(u)

---------------------------------------------------------------------------
(* Allow rules compiled in L3/L4 mode                                      *)

\* every remote subnet of the rule is of the other family than its ethertype
AllSubnetsMismatch(rule) ==
    /\ rule.remoteSubnets # {}
    /\ \A sub \in rule.remoteSubnets :
          IsV4(sub[1]) # (rule.cls.etherT = ETH_IP)

\* C35: when a set of security groups has been compiled, every allow rule
\* of its groups that compiles in L3/L4 mode has at least one entry in the
\* table of each direction it applies to, unless all its remote subnets
\* mismatch the family of its ethertype; in particular an allow rule with
\* named service ports and no remote subnet, direction in or bidirectional,
\* has an entry in its ingress table.
C35_AllowRuleHasEntries ==
    \A S \in SUBSET SecGroups :
        Compiled(S) =>
            \A g \in S : \A i \in 1 .. Len(policy[g]) :
                (policy[g][i].allow /\ IsL34(policy[g][i])
                 /\ ~AllSubnetsMismatch(policy[g][i]))
                   => \A tt \in DirTables(policy[g][i],
                                          checkIfSystemSecurityGroup(g)) :
                         EntriesOf(S, tt[1], policy[g][i]) # {}

---------------------------------------------------------------------------
(* The OVSDB connection: replies after a loss of the connection            *)

\* C36: in every reachable state syncComplete implies connected: every
\* transition to not-connected sets syncComplete to false, and a monitor
\* reply handled after it and before the next CONNECT does not set it.
C36_SyncImpliesConnected ==
    ovsdb.syncComplete => ovsdb.connected

---------------------------------------------------------------------------
(* The OVSDB connection: transactions and request ids                      *)

\* the ids sendTransaction gave to its requests
TransactIds ==
    { ovsdb.issued[i][2] :
        i \in { j \in DOMAIN ovsdb.issued : ovsdb.issued[j][1] = "transact" } }

TimesSent(reqId) ==
    Cardinality({ i \in DOMAIN ovsdb.sent : ovsdb.sent[i] = reqId })

\* no caller is in sendTransaction and no callback of send_req_async is due
AsyncQuiet ==
    ovsdb.txRead < 0 /\ ~ovsdb.asyncPending /\ ~ovsdb.cbReady

\* C37: no req_cb_data is used after its delete, no request of
\* sendTransaction is handed to the peer twice, and once the event loop has
\* run the callbacks that are due every request of sendTransaction has been
\* handed to the peer exactly once, also when two calls of sendTransaction
\* precede the callback.
C37_SentExactlyOnce ==
    /\ ~ovsdb.freedTwice
    /\ \A r \in TransactIds : TimesSent(r) <= 1
    /\ AsyncQuiet => \A r \in TransactIds : TimesSent(r) = 1

\* C38: every Transaction object is notified at most once for a request id,
\* only for a request it registered, and when the response or the error
\* response of a registered request has been handled its entry is gone from
\* the map and its Transaction has been notified exactly once for it.
C38_NotifiedOnce ==
    /\ \A i, j \in DOMAIN ovsdb.notified :
          ovsdb.notified[i][3] = ovsdb.notified[j][3] => i = j
    /\ \A i \in DOMAIN ovsdb.notified : ovsdb.notified[i][3] \in TransactIds
    /\ \A r \in TransactIds :
          (r \notin DOMAIN ovsdb.transactions /\ ovsdb.txRead < 0)
             => \E i \in DOMAIN ovsdb.notified : ovsdb.notified[i][3] = r

\* C39: the request ids getNextId has returned, for the monitor requests of
\* on_state_change and for the transactions of sendTransaction, are
\* pairwise distinct.
C39_IdsDistinct ==
    \A i, j \in DOMAIN ovsdb.issued :
        ovsdb.issued[i][2] = ovsdb.issued[j][2] => i = j

---------------------------------------------------------------------------
(* The OVSDB connection: completion of the sync                            *)

\* C40: after a CONNECT, when the peer answers each of the six monitor
\* requests, by a reply or by an error response, syncComplete eventually
\* becomes true unless the connection is lost.
C40_SyncEventually ==
    (ovsdb.connected /\ ~ovsdb.syncComplete)
        ~> (ovsdb.syncComplete \/ ~ovsdb.connected)

====
